---- MODULE Spec2Model ----
(***************************************************************************)
(* Release planner of versio: the PlanBuilder of src/src/mono.rs driven by  *)
(* Mono::build_plan, the builder's methods called as a bare API, and the    *)
(* `run` command of src/src/commands.rs that executes a built plan,         *)
(* pull_ff_only of src/src/git.rs and scan_xml of src/src/scan/xml.rs,      *)
(* find_last_commits of mono.rs and the DeltaIter of git.rs.                *)
(***************************************************************************)
EXTENDS Integers, Sequences, FiniteSets, TLC

VARIABLES
  pb,        \* the PlanBuilder struct (mono.rs 269-277)
  depends,   \* Project::depends() of every project of the current config
  pc,        \* position of the caller inside build_plan / run
  hist,      \* PRs handed to the builder so far, with the commits visited in each
  fileIdx,   \* build_plan: index of the next file of the commit being visited
  result,    \* outcome of the last builder call: "Ok", "Err" or "Panic"
  last,      \* the last builder call and the context it was made in
  calls,     \* number of builder calls made through the bare API
  plan,      \* Option<Plan>: <<>> until build() has run
  rn,        \* state of the `run` command and of the repository it acts on
  git,       \* a pull_ff_only in progress and the git repository it acts on
  xml,       \* a scan_xml call: the document, the path and what it returned
  lc,        \* find_last_commits: its LastCommitBuilder and the line it walks
  di,        \* the path iterator of one commit in get_changed_since, and its output
  hd,        \* a handle_deps call in progress: its queue and its dependents map
  ot,        \* find_old_tags: the tags, the walk and the maps it builds
  kf,        \* keyed_files: the PR groups and the items of the stream
  ck         \* get_changed_since: a commit summary and the kind taken from it

vars == <<pb, depends, pc, hist, fileIdx, result, last, calls, plan, rn, git, xml, lc, di, hd, ot, kf, ck>>

-----------------------------------------------------------------------------
(* Bounds *)

MaxPrs == 2          \* PRs fed to the builder in one build_plan
MaxCommits == 2      \* commits visited inside one PR
MaxCalls == 5        \* builder calls in one bare-API run
MaxItems == 6        \* tags and texts of a scanned XML document
MaxParts == 3        \* parts of a scanner path
MaxLine == 3         \* line commits find_last_commits walks
MaxDeltas == 2       \* deltas of the diff of one commit
MaxDeps == 2         \* dependencies of one project in an unchecked config
MaxSummary == 4      \* characters of a commit summary
MaxWalk == 3         \* commits find_old_tags walks
MaxGroups == 2       \* PR groups keyed_files is given
MaxBetween == 2      \* commits between the base and the head of a group

-----------------------------------------------------------------------------
(* Size: None < Empty < Patch < Minor < Major *)

SizeNone == 0
SizeEmpty == 1
SizePatch == 2
SizeMinor == 3
SizeMajor == 4

Max(a, b) == IF a >= b THEN a ELSE b

\* Iterator::max() over the sizes in S: <<>> is Option::None, <<m>> is Some(m)
MaxOfSet(S) == IF S = {} THEN <<>> ELSE <<CHOOSE m \in S : \A x \in S : m >= x>>

-----------------------------------------------------------------------------
(* The repository and its configuration, as the builder sees them *)

\* ids of the projects of the current config, in file order
ProjectList == <<1, 2, 3>>
Projects == {ProjectList[i] : i \in DOMAIN ProjectList}

\* the config file as of the older commits: project 9 was removed since,
\* project 3 did not exist yet, project 1 lived under old/
OldConfig ==
  << [id |-> 1, covers |-> {"old/x"}, excludes |-> {}],
     [id |-> 2, covers |-> {"lib/y"}, excludes |-> {}],
     [id |-> 9, covers |-> {"docs/r"}, excludes |-> {}] >>

\* the config file as of the newer commits and of the working tree
NewConfig ==
  << [id |-> 1, covers |-> {"new/x"}, excludes |-> {}],
     [id |-> 2, covers |-> {"lib/y"}, excludes |-> {}],
     [id |-> 3, covers |-> {"app/z", "app/t"}, excludes |-> {"app/t"}] >>

CurrentConfig == NewConfig

\* commits of the range prev_tag..HEAD; the config blob of "cx" does not parse
Oids == {"c1", "c2", "c3", "cx"}

CommitKind(oid) ==
  CASE oid = "c1" -> "docs"
    [] oid = "c2" -> "feat"
    [] oid = "c3" -> "fix"
    [] OTHER -> "fix"

CommitSummary(oid) ==
  CASE oid = "c1" -> "docs: readme"
    [] oid = "c2" -> "feat: x"
    [] oid = "c3" -> "fix: typo"
    [] OTHER -> "fix: config"

CommitFiles(oid) ==
  CASE oid = "c1" -> <<"old/x", "docs/r">>
    [] oid = "c2" -> <<"lib/y", "new/x">>
    [] oid = "c3" -> <<"old/x", "app/t">>
    [] OTHER -> <<"lib/y">>

\* ConfigFile::from_slice: <<>> when the blob at the commit does not parse
ConfigAt(oid) ==
  CASE oid = "c1" -> <<OldConfig>>
    [] oid = "cx" -> <<>>
    [] OTHER -> <<NewConfig>>

\* Project::does_cover: some covers glob matches and no excludes glob does
DoesCover(proj, path) == path \in proj.covers /\ path \notin proj.excludes

\* Project::size: the size of a commit kind in the project's size table
ProjectSize(id, kind) ==
  CASE kind = "fix" -> SizePatch
    [] kind = "feat" -> IF id = 1 THEN SizeMajor ELSE SizeMinor
    [] kind = "docs" -> SizeEmpty
    [] OTHER -> SizeNone

\* PR groups of Changes::groups, number and closed_at: PR 10 closed first,
\* PR 11 and the synthetic PR zero closed later, at the same time
Prs ==
  { [number |-> 0, closed_at |-> 2],
    [number |-> 10, closed_at |-> 1],
    [number |-> 11, closed_at |-> 2] }

-----------------------------------------------------------------------------
(* Logged values *)

\* LoggedPr::capture
Capture(pr) == [number |-> pr.number, closed_at |-> pr.closed_at, commits |-> <<>>]

\* LoggedCommit::new
NewLoggedCommit(oid, message, size) ==
  [oid |-> oid, message |-> message, size |-> size, applies |-> FALSE, duplicate |-> FALSE]

\* LoggedCommit::included
Included(c) == c.applies /\ ~c.duplicate

\* ChangeLog::empty paired with Size::None: the value or_insert puts into incrs
EmptyIncr == [size |-> SizeNone, log |-> <<>>]

IncrOf(incrs, id) == IF id \in DOMAIN incrs THEN incrs[id] ELSE EmptyIncr

Range(s) == {s[i] : i \in DOMAIN s}

\* the sizes of the applying commits of a LoggedPr
AppliesSizes(commits) == {commits[i].size : i \in {j \in DOMAIN commits : commits[j].applies}}

\* the sizes of the included commits of a LoggedPr
IncludedSizes(commits) == {commits[i].size : i \in {j \in DOMAIN commits : Included(commits[j])}}

-----------------------------------------------------------------------------
(* PlanBuilder *)

\* PlanBuilder::create
Created ==
  [ on_pr_sizes |-> <<>>,
    on_ineffective |-> <<>>,
    on_commit |-> <<>>,
    prev |-> <<>>,
    incrs |-> <<>>,
    ineffective |-> <<>> ]

Ret(b, res) == [b |-> b, res |-> res]

\* PlanBuilder::start_pr
StartPr(b, pr) ==
  Ret([b EXCEPT !.on_pr_sizes = [p \in Projects |-> Capture(pr)],
                !.on_ineffective = <<Capture(pr)>>], "Ok")

\* finish_pr taking the maximum over all commits of the PR, applying or not
FinishPrAnyCommit(b) ==
  LET open == DOMAIN b.on_pr_sizes
      allSizes(p) == {b.on_pr_sizes[p].commits[i].size : i \in DOMAIN b.on_pr_sizes[p].commits}
      prSize(p) == MaxOfSet(allSizes(p))
      found == \E p \in open : prSize(p) # <<>>
      entry(p) ==
        LET old == IncrOf(b.incrs, p)
        IN  IF p \in open /\ prSize(p) # <<>>
            THEN [size |-> Max(old.size, prSize(p)[1]),
                  log |-> Append(old.log, [pr |-> b.on_pr_sizes[p], size |-> prSize(p)[1]])]
            ELSE old
      drained == [b EXCEPT !.on_pr_sizes = <<>>,
                           !.incrs = [p \in DOMAIN b.incrs \cup open |-> entry(p)]]
  IN  IF b.on_ineffective = <<>>
      THEN Ret(drained, "Panic")
      ELSE Ret([drained EXCEPT
                  !.on_ineffective = <<>>,
                  !.ineffective = IF found THEN b.ineffective
                                  ELSE Append(b.ineffective, b.on_ineffective[1])],
               "Ok")

\* finish_pr storing the PR's size as the running size, whatever it was before
FinishPrLastSize(b) ==
  LET open == DOMAIN b.on_pr_sizes
      prSize(p) == MaxOfSet(AppliesSizes(b.on_pr_sizes[p].commits))
      found == \E p \in open : prSize(p) # <<>>
      entry(p) ==
        LET old == IncrOf(b.incrs, p)
        IN  IF p \in open /\ prSize(p) # <<>>
            THEN [size |-> prSize(p)[1],
                  log |-> Append(old.log, [pr |-> b.on_pr_sizes[p], size |-> prSize(p)[1]])]
            ELSE old
      drained == [b EXCEPT !.on_pr_sizes = <<>>,
                           !.incrs = [p \in DOMAIN b.incrs \cup open |-> entry(p)]]
  IN  IF b.on_ineffective = <<>>
      THEN Ret(drained, "Panic")
      ELSE Ret([drained EXCEPT
                  !.on_ineffective = <<>>,
                  !.ineffective = IF found THEN b.ineffective
                                  ELSE Append(b.ineffective, b.on_ineffective[1])],
               "Ok")

\* finish_pr pushing the PR to ineffective whether or not a project logged it
FinishPrAlwaysIneffective(b) ==
  LET open == DOMAIN b.on_pr_sizes
      prSize(p) == MaxOfSet(AppliesSizes(b.on_pr_sizes[p].commits))
      found == \E p \in open : prSize(p) # <<>>
      entry(p) ==
        LET old == IncrOf(b.incrs, p)
        IN  IF p \in open /\ prSize(p) # <<>>
            THEN [size |-> Max(old.size, prSize(p)[1]),
                  log |-> Append(old.log, [pr |-> b.on_pr_sizes[p], size |-> prSize(p)[1]])]
            ELSE old
      drained == [b EXCEPT !.on_pr_sizes = <<>>,
                           !.incrs = [p \in DOMAIN b.incrs \cup open |-> entry(p)]]
  IN  IF b.on_ineffective = <<>>
      THEN Ret(drained, "Panic")
      ELSE Ret([drained EXCEPT
                  !.on_ineffective = <<>>,
                  !.ineffective = Append(b.ineffective, b.on_ineffective[1])],
               "Ok")

\* PlanBuilder::finish_pr
FinishPr(b) ==
  LET open == DOMAIN b.on_pr_sizes
      prSize(p) == MaxOfSet(AppliesSizes(b.on_pr_sizes[p].commits))
      found == \E p \in open : prSize(p) # <<>>
      entry(p) ==
        LET old == IncrOf(b.incrs, p)
        IN  IF p \in open /\ prSize(p) # <<>>
            THEN [size |-> Max(old.size, prSize(p)[1]),
                  log |-> Append(old.log, [pr |-> b.on_pr_sizes[p], size |-> prSize(p)[1]])]
            ELSE old
      drained == [b EXCEPT !.on_pr_sizes = <<>>,
                           !.incrs = [p \in DOMAIN b.incrs \cup open |-> entry(p)]]
  IN  IF b.on_ineffective = <<>>
      THEN Ret(drained, "Panic")
      ELSE Ret([drained EXCEPT
                  !.on_ineffective = <<>>,
                  !.ineffective = IF found THEN b.ineffective
                                  ELSE Append(b.ineffective, b.on_ineffective[1])],
               "Ok")

\* Slicer::file
SlicerFile(prev) == IF prev = <<>> THEN <<>> ELSE ConfigAt(prev[1])

\* slice_to leaving a slicer that is already sliced where it is
SliceToKeepsFirst(prev, oid) ==
  IF ConfigAt(oid) = <<>> THEN Ret(prev, "Err")
  ELSE IF prev # <<>> THEN Ret(prev, "Ok")
  ELSE Ret(<<oid>>, "Ok")

\* Slicer::slice_to
SliceTo(prev, oid) == IF ConfigAt(oid) = <<>> THEN Ret(prev, "Err") ELSE Ret(<<oid>>, "Ok")

\* start_commit taking every size from the size table of the first project
StartCommitFirstSizes(b, oid) ==
  LET onc == [b EXCEPT !.on_commit = <<oid>>]
      sliced == SliceTo(b.prev, oid)
      push(p) ==
        IF p \in Projects
        THEN [b.on_pr_sizes[p] EXCEPT
                !.commits = Append(@, NewLoggedCommit(oid, CommitSummary(oid),
                                                      ProjectSize(ProjectList[1], CommitKind(oid))))]
        ELSE b.on_pr_sizes[p]
  IN  IF sliced.res = "Err"
      THEN Ret(onc, "Err")
      ELSE Ret([onc EXCEPT !.prev = sliced.b,
                           !.on_pr_sizes = [p \in DOMAIN b.on_pr_sizes |-> push(p)]], "Ok")

\* PlanBuilder::start_commit
StartCommit(b, oid) ==
  LET onc == [b EXCEPT !.on_commit = <<oid>>]
      sliced == SliceTo(b.prev, oid)
      push(p) ==
        IF p \in Projects
        THEN [b.on_pr_sizes[p] EXCEPT
                !.commits = Append(@, NewLoggedCommit(oid, CommitSummary(oid),
                                                      ProjectSize(p, CommitKind(oid))))]
        ELSE b.on_pr_sizes[p]
  IN  IF sliced.res = "Err"
      THEN Ret(onc, "Err")
      ELSE Ret([onc EXCEPT !.prev = sliced.b,
                           !.on_pr_sizes = [p \in DOMAIN b.on_pr_sizes |-> push(p)]], "Ok")

\* PlanBuilder::finish_commit
FinishCommit(b) == Ret(b, "Ok")

\* position of the first commit with the oid, 0 when there is none
FirstWithOid(commits, oid) ==
  IF \E i \in DOMAIN commits : commits[i].oid = oid
  THEN CHOOSE i \in DOMAIN commits :
         /\ commits[i].oid = oid
         /\ \A j \in DOMAIN commits : commits[j].oid = oid => i <= j
  ELSE 0

\* start_file asking the current config instead of the sliced one
StartFileCurrentCovers(b, path) ==
  LET cfg == CurrentConfig
      oid == b.on_commit[1]
      covering == {i \in DOMAIN cfg :
                     cfg[i].id \in DOMAIN b.on_pr_sizes /\ DoesCover(cfg[i], path)}
      hit == {cfg[i].id : i \in covering}
      mark(p) ==
        LET k == FirstWithOid(b.on_pr_sizes[p].commits, oid)
        IN  IF p \in hit
            THEN [b.on_pr_sizes[p] EXCEPT !.commits[k].applies = TRUE]
            ELSE b.on_pr_sizes[p]
  IN  IF b.on_commit = <<>> THEN Ret(b, "Err")
      ELSE IF SlicerFile(b.prev) = <<>> THEN Ret(b, "Err")
      ELSE IF \E p \in hit : FirstWithOid(b.on_pr_sizes[p].commits, oid) = 0
           THEN Ret(b, "Panic")
      ELSE Ret([b EXCEPT !.on_pr_sizes = [p \in DOMAIN b.on_pr_sizes |-> mark(p)]], "Ok")

\* PlanBuilder::start_file
StartFile(b, path) ==
  LET file == SlicerFile(b.prev)
      cfg == file[1]
      oid == b.on_commit[1]
      covering == {i \in DOMAIN cfg :
                     cfg[i].id \in DOMAIN b.on_pr_sizes /\ DoesCover(cfg[i], path)}
      hit == {cfg[i].id : i \in covering}
      mark(p) ==
        LET k == FirstWithOid(b.on_pr_sizes[p].commits, oid)
        IN  IF p \in hit
            THEN [b.on_pr_sizes[p] EXCEPT !.commits[k].applies = TRUE]
            ELSE b.on_pr_sizes[p]
  IN  IF b.on_commit = <<>> THEN Ret(b, "Err")
      ELSE IF file = <<>> THEN Ret(b, "Err")
      ELSE IF \E p \in hit : FirstWithOid(b.on_pr_sizes[p].commits, oid) = 0
           THEN Ret(b, "Panic")
      ELSE Ret([b EXCEPT !.on_pr_sizes = [p \in DOMAIN b.on_pr_sizes |-> mark(p)]], "Ok")

\* PlanBuilder::finish_file
FinishFile(b) == Ret(b, "Ok")

-----------------------------------------------------------------------------
(* Dependency propagation *)

\* an entry update that starts the project's change log anew
RaiseSizeAndLog(incrs, id, size) ==
  [p \in DOMAIN incrs \cup {id} |->
     IF p = id THEN [size |-> Max(IncrOf(incrs, p).size, size), log |-> <<>>] ELSE incrs[p]]

\* incrs.entry(id).or_insert((Size::None, ChangeLog::empty())).0 = max(.., size)
RaiseSize(incrs, id, size) ==
  [p \in DOMAIN incrs \cup {id} |->
     IF p = id THEN [IncrOf(incrs, p) EXCEPT !.size = Max(@, size)] ELSE incrs[p]]

\* the elements of the hash set S in the iteration order ord
InOrder(S, ord) == SelectSeq(ord, LAMBDA x : x \in S)

\* handle_deps, first loop: dep -> the projects that depend on it
Dependents(deps) ==
  [d \in Projects \cup UNION {deps[p] : p \in Projects} |-> {p \in Projects : d \in deps[p]}]

\* handle_deps, first loop: the queue of the projects without dependencies
RECURSIVE SeedQueue(_, _, _)
SeedQueue(list, deps, incrs) ==
  IF list = <<>> THEN <<>>
  ELSE LET p == Head(list)
           rest == SeedQueue(Tail(list), deps, incrs)
       IN  IF deps[p] = {}
           THEN <<[id |-> p, size |-> IncrOf(incrs, p).size]>> \o rest
           ELSE rest

\* the popped project looked up with get_mut instead of entry().or_insert()
EnterProjectIfPresent(incrs, id, size) ==
  IF id \in DOMAIN incrs THEN RaiseSize(incrs, id, size) ELSE incrs

\* handle_deps, queue loop: the popped project takes the size it was queued with
EnterProject(incrs, id, size) == RaiseSize(incrs, id, size)

\* the dependent takes the size of its dependency in place of its own
BumpDependentOverwrites(incrs, depd, size) ==
  [p \in DOMAIN incrs \cup {depd} |->
     IF p = depd THEN [IncrOf(incrs, p) EXCEPT !.size = size] ELSE incrs[p]]

\* the dependent gets its entry but not the size of its dependency
BumpDependentForgotten(incrs, depd, size) ==
  [p \in DOMAIN incrs \cup {depd} |-> IncrOf(incrs, p)]

\* handle_deps, inner loop: the dependent is bumped to the size of its dependency
BumpDependent(incrs, depd, size) == RaiseSize(incrs, depd, size)

\* the inner loop queueing every dependent it visits, edges left or not
RECURSIVE VisitDepdsAlwaysQueues(_, _, _, _)
VisitDepdsAlwaysQueues(depds, id, size, st) ==
  IF depds = <<>> THEN st
  ELSE LET depd == Head(depds)
           dps == [st.dependents EXCEPT ![id] = @ \ {depd}]
           inc == BumpDependent(st.incrs, depd, size)
           q == Append(st.queue, [id |-> depd, size |-> inc[depd].size])
       IN  VisitDepdsAlwaysQueues(Tail(depds), id, size,
                                  [queue |-> q, dependents |-> dps, incrs |-> inc])

\* handle_deps, the `for depd in depds` loop
RECURSIVE VisitDepds(_, _, _, _)
VisitDepds(depds, id, size, st) ==
  IF depds = <<>> THEN st
  ELSE LET depd == Head(depds)
           dps == [st.dependents EXCEPT ![id] = @ \ {depd}]
           inc == BumpDependent(st.incrs, depd, size)
           q == IF \A k \in DOMAIN dps : depd \notin dps[k]
                THEN Append(st.queue, [id |-> depd, size |-> inc[depd].size])
                ELSE st.queue
       IN  VisitDepds(Tail(depds), id, size, [queue |-> q, dependents |-> dps, incrs |-> inc])

\* handle_deps, the `while let Some((id, size)) = queue.pop_front()` loop
RECURSIVE KahnLoop(_, _)
KahnLoop(st, ord) ==
  IF st.queue = <<>> THEN st.incrs
  ELSE LET id == Head(st.queue).id
           size == Head(st.queue).size
           popped == [st EXCEPT !.queue = Tail(@), !.incrs = EnterProject(@, id, size)]
           depds == IF id \in DOMAIN st.dependents THEN InOrder(st.dependents[id], ord) ELSE <<>>
       IN  KahnLoop(VisitDepds(depds, id, size, popped), ord)

\* PlanBuilder::handle_deps; ord is the order in which hash sets are iterated
HandleDeps(b, deps, ord) ==
  Ret([b EXCEPT !.incrs = KahnLoop([queue |-> SeedQueue(ProjectList, deps, b.incrs),
                                    dependents |-> Dependents(deps),
                                    incrs |-> b.incrs], ord)], "Ok")

-----------------------------------------------------------------------------
(* Sort and dedup *)

\* e placed behind every entry of the sorted s that closed at the same time or earlier
RECURSIVE InsertByClosedAt(_, _)
InsertByClosedAt(s, e) ==
  IF s = <<>> THEN <<e>>
  ELSE IF Head(s).pr.closed_at <= e.pr.closed_at
       THEN <<Head(s)>> \o InsertByClosedAt(Tail(s), e)
       ELSE <<e>> \o s

\* entries.sort_by_key(|(pr, _)| *pr.closed_at()): a stable sort
RECURSIVE SortByClosedAt(_)
SortByClosedAt(entries) ==
  IF entries = <<>> THEN <<>>
  ELSE InsertByClosedAt(SortByClosedAt(SubSeq(entries, 1, Len(entries) - 1)),
                        entries[Len(entries)])

\* no commit is ever marked
MarkCommitNever(c, seen) == c

\* every commit is marked, seen before or not
MarkCommitAlways(c, seen) == [c EXCEPT !.duplicate = TRUE]

\* sort_and_dedup: a commit whose oid was seen before is a duplicate
MarkCommit(c, seen) == IF c.oid \in seen THEN [c EXCEPT !.duplicate = TRUE] ELSE c

\* sort_and_dedup, the loop over the commits of one PR
RECURSIVE MarkDuplicates(_, _)
MarkDuplicates(commits, seen) ==
  IF commits = <<>> THEN [commits |-> <<>>, seen |-> seen]
  ELSE LET c == Head(commits)
           rest == MarkDuplicates(Tail(commits), seen \cup {c.oid})
       IN  [commits |-> <<MarkCommit(c, seen)>> \o rest.commits,
            seen |-> rest.seen]

\* the entries marked, each keeping the size finish_pr stored with it
RECURSIVE DedupEntriesKeepSize(_, _)
DedupEntriesKeepSize(entries, seen) ==
  IF entries = <<>> THEN <<>>
  ELSE LET marked == MarkDuplicates(Head(entries).pr.commits, seen)
       IN  <<[pr |-> [Head(entries).pr EXCEPT !.commits = marked.commits],
              size |-> Head(entries).size]>>
           \o DedupEntriesKeepSize(Tail(entries), marked.seen)

\* sort_and_dedup, the loop over the entries of one change log
RECURSIVE DedupEntries(_, _)
DedupEntries(entries, seen) ==
  IF entries = <<>> THEN <<>>
  ELSE LET marked == MarkDuplicates(Head(entries).pr.commits, seen)
           top == MaxOfSet(IncludedSizes(marked.commits))
       IN  <<[pr |-> [Head(entries).pr EXCEPT !.commits = marked.commits],
              size |-> IF top = <<>> THEN SizeNone ELSE top[1]]>>
           \o DedupEntries(Tail(entries), marked.seen)

\* sort_and_dedup without the sort
SortAndDedupUnsorted(b) ==
  Ret([b EXCEPT !.incrs = [p \in DOMAIN b.incrs |->
                             [b.incrs[p] EXCEPT !.log = DedupEntries(@, {})]]],
      "Ok")

\* sort_and_dedup marking duplicates in feed order and sorting afterwards
SortAndDedupWalkFirst(b) ==
  Ret([b EXCEPT !.incrs = [p \in DOMAIN b.incrs |->
                             [b.incrs[p] EXCEPT !.log = SortByClosedAt(DedupEntries(@, {}))]]],
      "Ok")

\* PlanBuilder::sort_and_dedup
SortAndDedup(b) ==
  Ret([b EXCEPT !.incrs = [p \in DOMAIN b.incrs |->
                             [b.incrs[p] EXCEPT !.log = DedupEntries(SortByClosedAt(@), {})]]],
      "Ok")

\* PlanBuilder::build
Build(b) == [incrs |-> b.incrs, ineffective |-> b.ineffective]

-----------------------------------------------------------------------------
(* The current config's dependency graph *)

Perms == {s \in [1..Len(ProjectList) -> Projects] : \A p \in Projects : \E i \in DOMAIN s : s[i] = p}

\* the config loader rejects cyclic dependencies (CyclicDependency), so some
\* order of the projects puts every dependency before its dependents
Acyclic(deps) ==
  \E s \in Perms : \A i, j \in DOMAIN s : s[j] \in deps[s[i]] => j < i

NoDeps == [p \in Projects |-> {}]

\* the dependency graphs the current config is loaded with: none, chains in and
\* against file order, fork, join, triangle, join into the first project
DepShapes ==
  { NoDeps,
    [NoDeps EXCEPT ![2] = {1}, ![3] = {2}],
    [NoDeps EXCEPT ![1] = {2}, ![2] = {3}],
    [NoDeps EXCEPT ![2] = {1}, ![3] = {1}],
    [NoDeps EXCEPT ![3] = {1, 2}],
    [NoDeps EXCEPT ![2] = {1}, ![3] = {1, 2}],
    [NoDeps EXCEPT ![1] = {2, 3}],
    [NoDeps EXCEPT ![1] = {3}, ![2] = {1}] }

Dags == {deps \in DepShapes : Acyclic(deps)}

-----------------------------------------------------------------------------
(* Calls of the builder *)

NoCall ==
  [op |-> "none", in_pr |-> FALSE, in_commit |-> FALSE,
   now_in_pr |-> FALSE, now_in_commit |-> FALSE, marked |-> FALSE]

\* one call of a builder method: r is what the method returned, nowPr/nowCommit
\* tell whether a PR / a commit is open once the call has returned
Call(op, r, nowPr, nowCommit) ==
  /\ pb' = r.b
  /\ result' = r.res
  /\ last' = [op |-> op, in_pr |-> last.now_in_pr, in_commit |-> last.now_in_commit,
              now_in_pr |-> nowPr, now_in_commit |-> nowCommit,
              marked |-> r.b.on_pr_sizes # pb.on_pr_sizes /\ DOMAIN r.b.on_pr_sizes # {}]

CallStartPr(pr) == Call("start_pr", StartPr(pb, pr), TRUE, last.now_in_commit)
CallStartCommit(oid) ==
  Call("start_commit", StartCommit(pb, oid), last.now_in_pr,
       last.now_in_commit \/ StartCommit(pb, oid).res = "Ok")
CallStartFile(path) == Call("start_file", StartFile(pb, path), last.now_in_pr, last.now_in_commit)
CallFinishFile == Call("finish_file", FinishFile(pb), last.now_in_pr, last.now_in_commit)
CallFinishCommit == Call("finish_commit", FinishCommit(pb), last.now_in_pr, FALSE)
CallFinishPr == Call("finish_pr", FinishPr(pb), FALSE, last.now_in_commit)
CallHandleDeps(ord) == Call("handle_deps", HandleDeps(pb, depends, ord), last.now_in_pr, last.now_in_commit)
CallSortAndDedup == Call("sort_and_dedup", SortAndDedup(pb), last.now_in_pr, last.now_in_commit)

-----------------------------------------------------------------------------
(* Mono::build_plan as one call *)

\* In this section a builder travels with the outcome of the last call on it, and
\* a call on an outcome that is not Ok is not made: build_plan's `?`

\* plan.finish_file()?
ThenFinishFile(r) == IF r.res = "Ok" THEN FinishFile(r.b) ELSE r

\* plan.start_file(file)?; plan.finish_file()?
FileEvents(b, file) == ThenFinishFile(StartFile(b, file))

\* for file in commit.files()
RECURSIVE FeedFiles(_, _)
FeedFiles(r, files) ==
  IF r.res = "Ok" /\ files # <<>>
  THEN FeedFiles(FileEvents(r.b, Head(files)), Tail(files))
  ELSE r

\* plan.finish_commit()?
ThenFinishCommit(r) == IF r.res = "Ok" THEN FinishCommit(r.b) ELSE r

\* plan.start_commit(commit)?; the files; plan.finish_commit()?
CommitEvents(b, oid) == ThenFinishCommit(FeedFiles(StartCommit(b, oid), CommitFiles(oid)))

\* for commit in pr.included_commits()
RECURSIVE FeedCommits(_, _)
FeedCommits(r, commits) ==
  IF r.res = "Ok" /\ commits # <<>>
  THEN FeedCommits(CommitEvents(r.b, Head(commits)), Tail(commits))
  ELSE r

\* plan.finish_pr()?
ThenFinishPr(r) == IF r.res = "Ok" THEN FinishPr(r.b) ELSE r

\* plan.start_pr(pr)?; the commits; plan.finish_pr()?
PrEvents(b, pr) == ThenFinishPr(FeedCommits(StartPr(b, pr), pr.commits))

\* for pr in groups.values()
RECURSIVE FeedPrs(_, _)
FeedPrs(r, prs) ==
  IF r.res = "Ok" /\ prs # <<>>
  THEN FeedPrs(PrEvents(r.b, Head(prs)), Tail(prs))
  ELSE r

\* plan.handle_deps()?
ThenHandleDeps(r, deps, ord) == IF r.res = "Ok" THEN HandleDeps(r.b, deps, ord) ELSE r

\* plan.sort_and_dedup()?
ThenSortAndDedup(r) == IF r.res = "Ok" THEN SortAndDedup(r.b) ELSE r

\* the builder after every call of build_plan, or the first error
Planned(prs, deps, ord) ==
  ThenSortAndDedup(ThenHandleDeps(FeedPrs(Ret(Created, "Ok"), prs), deps, ord))

\* Ok(plan.build()), or build_plan's error
PlanOf(r) == IF r.res = "Ok" THEN <<Build(r.b)>> ELSE <<>>

\* Mono::build_plan over the PR groups prs: <<>> when an event failed, else <<plan>>
BuildPlan(prs, deps, ord) == PlanOf(Planned(prs, deps, ord))

-----------------------------------------------------------------------------
(* git.rs: pull_ff_only *)

\* The commits of the repository and of its remote: 2 follows 1, 3 follows 2,
\* 4 follows 1 on another line; 0 stands for "no commit"
GitCommits == 1 .. 4
ParentOf == <<0, 1, 2, 1>>

\* whether commit a is b or one of b's ancestors
RECURSIVE Ancestor(_, _)
Ancestor(a, b) ==
  IF b = 0 THEN FALSE
  ELSE IF a = b THEN TRUE
  ELSE Ancestor(a, ParentOf[b])

Branches == {"main", "dev"}

\* repo.merge_analysis(&[fetch_commit]): HEAD against the fetched commit
MergeAnalysis(repo, c) ==
  LET head == repo.refs[repo.head]
  IN  IF head = 0 THEN "FastForward"
      ELSE IF Ancestor(c, head) THEN "UpToDate"
      ELSE IF Ancestor(head, c) THEN "FastForward"
      ELSE "Normal"

\* fast_forward: lb.set_target, repo.set_head, repo.checkout_head(force)
FastForward(repo, name, c) ==
  [repo EXCEPT !.refs[name] = c, !.head = name, !.tree = c, !.dirty = FALSE]

\* do_merge, a local branch that does not exist yet: repo.reference,
\* repo.set_head, repo.checkout_head(force)
SetReference(repo, name, c) ==
  [repo EXCEPT !.refs[name] = c, !.head = name, !.tree = c, !.dirty = FALSE]

\* a do_merge that merges what cannot be fast-forwarded
DoMergeAnyway(repo, branch, c) ==
  LET analysis == MergeAnalysis(repo, c)
  IN  IF analysis = "FastForward"
      THEN Ret(FastForward(repo, branch, c), "Ok")
      ELSE IF analysis = "Normal"
           THEN Ret([repo EXCEPT !.merges = @ + 1, !.tree = c], "Ok")
           ELSE Ret(repo, "Ok")

\* do_merge
DoMerge(repo, branch, c) ==
  LET analysis == MergeAnalysis(repo, c)
  IN  IF analysis = "FastForward"
      THEN IF repo.refs[branch] # 0
           THEN Ret(FastForward(repo, branch, c), "Ok")
           ELSE Ret(SetReference(repo, branch, c), "Ok")
      ELSE IF analysis = "Normal"
           THEN Ret(repo, "NotFastForward")
           ELSE Ret(repo, "Ok")

\* do_fetch: all tags and the branch are downloaded, FETCH_HEAD is written when
\* the remote has the branch (tip # 0); the returned commit is FETCH_HEAD's
DoFetch(repo, tip, net_ok) ==
  IF ~net_ok THEN Ret(repo, "FetchFailed")
  ELSE Ret([repo EXCEPT !.tags = TRUE, !.fetched = TRUE,
                        !.fetch_head = IF tip # 0 THEN tip ELSE @], "Ok")

\* fetch: refuses a repository in the middle of a merge or rebase, then fetches
Fetch(repo, tip, net_ok) ==
  IF repo.state # "Clean" THEN Ret(repo, "StateNotClean")
  ELSE DoFetch(repo, tip, net_ok)

\* FetchResults.commit_oid
CommitOid(repo) == IF repo.fetch_head = 0 THEN <<>> ELSE <<repo.fetch_head>>

\* merge_after_fetch
MergeAfterFetch(repo, branch, commit_oid) ==
  IF commit_oid = <<>> THEN Ret(repo, "Ok")
  ELSE IF repo.dirty THEN Ret(repo, "NotClean")
  ELSE DoMerge(repo, branch, commit_oid[1])

\* the repositories pull_ff_only can be called on: HEAD on a branch that may
\* be unborn, a working tree at HEAD's commit, no FETCH_HEAD yet
GitRepos ==
  {r \in [ state : {"Clean", "Merge"}, dirty : BOOLEAN,
           refs : [Branches -> {0} \cup GitCommits], head : Branches,
           tree : {0} \cup GitCommits, fetch_head : {0},
           tags : {FALSE}, fetched : {FALSE}, merges : {0} ] :
     /\ r.tree = r.refs[r.head]
     /\ r.refs["dev"] \in {0, 1, 4}}

GitInit ==
  [ pc |-> "idle", branch |-> "main", tip |-> 0, commit_oid |-> <<>>, analysis |-> "",
    res |-> "Ok",
    repo |-> [ state |-> "Clean", dirty |-> FALSE, refs |-> [b \in Branches |-> 0],
               head |-> "main", tree |-> 0, fetch_head |-> 0, tags |-> FALSE,
               fetched |-> FALSE, merges |-> 0 ] ]

-----------------------------------------------------------------------------
(* scan/xml.rs: scan_xml *)

\* Element names and texts, with their lengths in UTF-8 bytes
Names == {"a", "ï"}
Texts == {"1", "2"}
ByteLen(str) == IF str = "ï" THEN 2 ELSE 1

\* A document is a sequence of tags and texts: <s>, <s/>, </s>, s
Items ==
  [k : {"open"}, s : Names] \cup [k : {"empty"}, s : {"ï"}] \cup
  [k : {"close"}, s : Names] \cup [k : {"text"}, s : Texts]

\* the bytes a tag or text takes in the document
ItemBytes(item) ==
  CASE item.k = "open" -> ByteLen(item.s) + 2
    [] item.k = "empty" -> ByteLen(item.s) + 3
    [] item.k = "close" -> ByteLen(item.s) + 3
    [] OTHER -> ByteLen(item.s)

\* the names of the elements open after the first n items, innermost last, or
\* <<"!">> when the tags do not nest, or something stands outside the root
RECURSIVE OpenAfter(_, _)
OpenAfter(doc, n) ==
  IF n = 0 THEN <<>>
  ELSE LET before == OpenAfter(doc, n - 1)
           item == doc[n]
       IN  IF before = <<"!">> THEN before
           ELSE IF before = <<>> /\ (n > 1 \/ item.k \in {"close", "text"}) THEN <<"!">>
           ELSE IF item.k = "open" THEN Append(before, item.s)
           ELSE IF item.k = "close"
                THEN IF before[Len(before)] = item.s
                     THEN SubSeq(before, 1, Len(before) - 1)
                     ELSE <<"!">>
                ELSE before

\* the documents: one root element, every tag closed by its own name
WellFormed(doc) == doc # <<>> /\ OpenAfter(doc, Len(doc)) = <<>>
Docs == UNION {{doc \in [1 .. n -> Items] : WellFormed(doc)} : n \in 1 .. MaxItems}

\* the paths a scanner is made with, as part vectors
Locs == UNION {[1 .. n -> Names] : n \in 0 .. MaxParts}

\* Tokenizer::from(data): ElementStart for "<s", ElementEnd Open for ">",
\* ElementEnd Empty for "/>", ElementEnd Close for "</s>", Text; each token
\* with the byte offset it starts at
RECURSIVE Tokenize(_, _)
Tokenize(doc, at) ==
  IF doc = <<>> THEN <<>>
  ELSE LET item == Head(doc)
           rest == Tokenize(Tail(doc), at + ItemBytes(item))
       IN  CASE item.k = "open" ->
                  <<[t |-> "ElementStart", s |-> item.s, start |-> at],
                    [t |-> "Open", s |-> "", start |-> at + ByteLen(item.s) + 1]>> \o rest
             [] item.k = "empty" ->
                  <<[t |-> "ElementStart", s |-> item.s, start |-> at],
                    [t |-> "Empty", s |-> "", start |-> at + ByteLen(item.s) + 1]>> \o rest
             [] item.k = "close" -> <<[t |-> "Close", s |-> item.s, start |-> at]>> \o rest
             [] OTHER -> <<[t |-> "Text", s |-> item.s, start |-> at]>> \o rest

\* is_ending
IsEnding(token) == token.t \in {"Close", "Empty"}

\* is_match_str(local, parts.last())
IsMatchStr(local, parts) == parts # <<>> /\ parts[Len(parts)] = local

Reverse(seq) == [i \in DOMAIN seq |-> seq[Len(seq) + 1 - i]]

\* what scan_xml returns: a Mark, or an error with the parts left
Marked(value, start) == [ok |-> TRUE, value |-> value, start |-> start, err |-> "", expecting |-> <<>>]
Failed(err, parts) == [ok |-> FALSE, value |-> "", start |-> 0, err |-> err, expecting |-> parts]

\* a loop that takes the first text of the document, on target or not
RECURSIVE ScanTokensAnyText(_, _, _, _)
ScanTokensAnyText(tokens, parts, extra_depth, on_target) ==
  IF tokens = <<>> THEN Failed("AtEnd", parts)
  ELSE LET token == Head(tokens)
       IN  IF token.t = "Text" THEN Marked(token.s, token.start)
           ELSE ScanTokensAnyText(Tail(tokens), parts, extra_depth, on_target)

\* a loop that goes on when a matched element ends
RECURSIVE ScanTokensPastEnd(_, _, _, _)
ScanTokensPastEnd(tokens, parts, extra_depth, on_target) ==
  IF tokens = <<>> THEN Failed("AtEnd", parts)
  ELSE LET token == Head(tokens)
           rest == Tail(tokens)
       IN  IF token.t = "ElementStart"
           THEN IF extra_depth = 0 /\ IsMatchStr(token.s, parts)
                THEN ScanTokensPastEnd(rest, SubSeq(parts, 1, Len(parts) - 1), extra_depth,
                                       on_target \/ Len(parts) = 1)
                ELSE ScanTokensPastEnd(rest, parts, extra_depth + 1, on_target)
           ELSE IF IsEnding(token)
                THEN ScanTokensPastEnd(rest, parts, IF extra_depth > 0 THEN extra_depth - 1 ELSE 0,
                                       on_target)
           ELSE IF token.t = "Text" /\ on_target
                THEN Marked(token.s, token.start)
           ELSE ScanTokensPastEnd(rest, parts, extra_depth, on_target)

\* scan_xml, `for token in Tokenizer::from(data)` and the error after it
RECURSIVE ScanTokens(_, _, _, _)
ScanTokens(tokens, parts, extra_depth, on_target) ==
  IF tokens = <<>> THEN Failed("AtEnd", parts)
  ELSE LET token == Head(tokens)
           rest == Tail(tokens)
       IN  IF token.t = "ElementStart"
           THEN IF extra_depth = 0 /\ IsMatchStr(token.s, parts)
                THEN ScanTokens(rest, SubSeq(parts, 1, Len(parts) - 1), extra_depth,
                                on_target \/ Len(parts) = 1)
                ELSE ScanTokens(rest, parts, extra_depth + 1, on_target)
           ELSE IF IsEnding(token)
                THEN IF extra_depth > 0
                     THEN ScanTokens(rest, parts, extra_depth - 1, on_target)
                     ELSE Failed("Ended", parts)
           ELSE IF token.t = "Text" /\ on_target
                THEN Marked(token.s, token.start)
           ELSE ScanTokens(rest, parts, extra_depth, on_target)

\* scan_xml
ScanXml(data, loc) ==
  IF Reverse(loc) = <<>> THEN Failed("NoParts", <<>>)
  ELSE ScanTokens(Tokenize(data, 0), Reverse(loc), 0, FALSE)

XmlInit == [pc |-> "idle", data |-> <<>>, loc |-> <<>>, mark |-> Failed("", <<>>)]

-----------------------------------------------------------------------------
(* mono.rs: find_last_commits and its LastCommitBuilder *)

\* LastCommitBuilder::create
LastCreated == [on_line_commit |-> <<>>, last_commits |-> <<>>, prev |-> <<>>]

\* LastCommitBuilder::start_line_commit
StartLineCommit(b, oid) ==
  LET onc == [b EXCEPT !.on_line_commit = <<oid>>]
      sliced == SliceTo(b.prev, oid)
  IN  IF sliced.res = "Err" THEN Ret(onc, "Err")
      ELSE Ret([onc EXCEPT !.prev = sliced.b], "Ok")

\* LastCommitBuilder::finish_line_commit
FinishLineCommit(b) == Ret(b, "Ok")

\* HashMap::insert for every id of ids: an entry that exists is replaced
InsertAll(last_commits, ids, oid) ==
  [p \in DOMAIN last_commits \cup ids |-> IF p \in ids THEN oid ELSE last_commits[p]]

\* LastCommitBuilder::start_line_file
StartLineFile(b, path) ==
  LET file == SlicerFile(b.prev)
      cfg == file[1]
      covering == {i \in DOMAIN cfg : cfg[i].id \in Projects /\ DoesCover(cfg[i], path)}
      hit == {cfg[i].id : i \in covering}
  IN  IF b.on_line_commit = <<>> THEN Ret(b, "Err")
      ELSE IF file = <<>> THEN Ret(b, "Err")
      ELSE Ret([b EXCEPT !.last_commits = InsertAll(b.last_commits, hit, b.on_line_commit[1])],
               "Ok")

\* LastCommitBuilder::finish_line_file
FinishLineFile(b) == Ret(b, "Ok")

\* LastCommitBuilder::build
LastBuild(b) == b.last_commits

\* the commits line_commits_head returns, in the order it returns them:
\* distinct commits of the range, the newest first
Lines ==
  UNION {{s \in [1..n -> Oids] : \A i, j \in 1..n : s[i] = s[j] => i = j} : n \in 0..MaxLine}

LcInit == [b |-> LastCreated, line |-> <<>>, at |-> 0, built |-> <<>>]

-----------------------------------------------------------------------------
(* git.rs: DeltaIter *)

DeltaPaths == {"a", "b"}

\* DiffFile::path: Option<&Path>
OptPaths == {<<>>} \cup {<<p>> : p \in DeltaPaths}

Deltas == [old : OptPaths, new : OptPaths]

Diffs == UNION {[1..n -> Deltas] : n \in 0..MaxDeltas}

\* DeltaIter::new
DeltaIterNew(diff) == [diff |-> diff, len |-> Len(diff), on |-> 0, on_new |-> FALSE]

\* Diff::get_delta: None past the last delta
GetDelta(diff, on) == IF on < Len(diff) THEN <<diff[on + 1]>> ELSE <<>>

\* DeltaIter::current
DeltaCurrent(it) ==
  LET delta == GetDelta(it.diff, it.on)
  IN  IF delta = <<>> THEN <<>>
      ELSE IF it.on_new THEN delta[1].new ELSE delta[1].old

\* advance going to the new side of every delta, equal paths or not
DeltaAdvanceBothSides(it) ==
  IF it.on >= it.len THEN [it |-> it, end |-> TRUE]
  ELSE LET moved == IF it.on_new THEN [it EXCEPT !.on_new = FALSE, !.on = @ + 1]
                    ELSE [it EXCEPT !.on_new = TRUE]
       IN  [it |-> moved, end |-> moved.on >= moved.len]

\* DeltaIter::advance; end is the bool it returns
DeltaAdvance(it) ==
  IF it.on >= it.len THEN [it |-> it, end |-> TRUE]
  ELSE LET delta == GetDelta(it.diff, it.on)
           old_path == IF delta = <<>> THEN <<>> ELSE delta[1].old
           new_path == IF delta = <<>> THEN <<>> ELSE delta[1].new
           moved == IF it.on_new THEN [it EXCEPT !.on_new = FALSE, !.on = @ + 1]
                    ELSE IF old_path = new_path THEN [it EXCEPT !.on = @ + 1]
                    ELSE [it EXCEPT !.on_new = TRUE]
       IN  [it |-> moved, end |-> moved.on >= moved.len]

\* next: while let None = self.current() { if self.advance() { break; } }
RECURSIVE SkipAbsent(_)
SkipAbsent(it) ==
  IF DeltaCurrent(it) # <<>> THEN it
  ELSE LET a == DeltaAdvance(it)
       IN  IF a.end THEN a.it ELSE SkipAbsent(a.it)

\* <DeltaIter as Iterator>::next
DeltaIterNext(it) ==
  LET at == SkipAbsent(it)
  IN  [it |-> DeltaAdvance(at).it, item |-> DeltaCurrent(at)]

\* get_changed_since, per commit: the paths of the diff against the parent
\* when the commit has exactly one, no path otherwise
ChangedIter(parents, diff) ==
  IF parents = 1 THEN [kind |-> "B", it |-> DeltaIterNew(diff)]
  ELSE [kind |-> "C", it |-> DeltaIterNew(<<>>)]

DiInit == [kind |-> "C", it |-> DeltaIterNew(<<>>), out |-> <<>>]

-----------------------------------------------------------------------------
(* handle_deps, one pass of its queue loop at a time *)

\* an id that some project depends on and that no current project has
UnknownId == 9

\* Project::depends() of the current projects when the config is not checked:
\* cycles and unknown ids included
DepGraphs ==
  [Projects -> {S \in SUBSET (Projects \cup {UnknownId}) : Cardinality(S) <= MaxDeps}]

HdInit == [pc |-> "idle", queue |-> <<>>, dependents |-> <<>>, enq |-> <<>>, deq |-> <<>>,
           removed |-> <<>>]

\* tag prefixes of the projects: none, "a", and "va", which starts like a version
Prefixes == {"", "a", "va"}

\* the tags of the repository, a-v1, v1, v2, va-v1, the way tag_names lists them
TagList ==
  << [pre |-> "a", ver |-> 1], [pre |-> "", ver |-> 1],
     [pre |-> "", ver |-> 2], [pre |-> "va", ver |-> 1] >>

\* the commits commits_to_head yields, the newest first; commit 0 is older
\* than the walk
Walk == [i \in 1..MaxWalk |-> MaxWalk + 1 - i]

\* revparse_oid of every tag of TagList
TagPlacings == [DOMAIN TagList -> 0..MaxWalk]

\* the tag name matches the fnmatch pattern of the prefix: "v*" for the empty
\* prefix, "<prefix>-v*" otherwise
FnMatch(prefix, tag) ==
  IF prefix = "" THEN tag.pre = "" \/ tag.pre = "va" ELSE tag.pre = prefix

\* find_old_tags, first loop: by_prefix_id, and with it the lists the second
\* loop keeps per prefix, still empty
ByPrefixId(at) ==
  LET named(prefix) == {i \in DOMAIN TagList : FnMatch(prefix, TagList[i])}
      tagsAt(prefix, oid) ==
        SelectSeq(TagList, LAMBDA tag : \E i \in named(prefix) : TagList[i] = tag /\ at[i] = oid)
  IN  [prefix \in {q \in Prefixes : named(q) # {}} |->
         [by_id |-> [oid \in {at[i] : i \in named(prefix)} |-> tagsAt(prefix, oid)],
          old_tags |-> <<>>, not_after |-> <<>>, not_after_walk |-> <<>>]]

\* the round taking best_ind after the tags were added to the list
WalkPrefixIndexAfter(rec, oid) ==
  LET walk == Append(rec.not_after_walk, oid)
  IN  IF oid \in DOMAIN rec.by_id
      THEN LET best_ind == Len(rec.old_tags \o rec.by_id[oid])
           IN  [by_id |-> [c \in DOMAIN rec.by_id \ {oid} |-> rec.by_id[c]],
                old_tags |-> rec.old_tags \o rec.by_id[oid],
                not_after |-> [c \in DOMAIN rec.not_after \cup Range(walk) |->
                                 IF c \in Range(walk) THEN best_ind ELSE rec.not_after[c]],
                not_after_walk |-> <<>>]
      ELSE [rec EXCEPT !.not_after_walk = walk]

\* find_old_tags, second loop: one round of `for (prefix, by_id) in &mut by_prefix_id`
WalkPrefix(rec, oid) ==
  LET walk == Append(rec.not_after_walk, oid)
  IN  IF oid \in DOMAIN rec.by_id
      THEN LET best_ind == Len(rec.old_tags)
           IN  [by_id |-> [c \in DOMAIN rec.by_id \ {oid} |-> rec.by_id[c]],
                old_tags |-> rec.old_tags \o rec.by_id[oid],
                not_after |-> [c \in DOMAIN rec.not_after \cup Range(walk) |->
                                 IF c \in Range(walk) THEN best_ind ELSE rec.not_after[c]],
                not_after_walk |-> <<>>]
      ELSE [rec EXCEPT !.not_after_walk = walk]

OtInit == [pc |-> "idle", at |-> <<>>, walked |-> 0, per |-> <<>>]

\* what repo.commits_between yields one by one: a commit whose files can be
\* read, one whose files cannot, a second readable commit, and a read error
KeyedCommits ==
  { [ok |-> TRUE, id |-> 1, kind |-> "fix", files_ok |-> TRUE, files |-> <<"a", "b">>],
    [ok |-> TRUE, id |-> 1, kind |-> "fix", files_ok |-> FALSE, files |-> <<>>],
    [ok |-> TRUE, id |-> 2, kind |-> "feat", files_ok |-> TRUE, files |-> <<"c">>],
    [ok |-> FALSE, id |-> 0, kind |-> "", files_ok |-> FALSE, files |-> <<>>] }

\* the results of repo.commits_between(base, head)
Betweens ==
  {[ok |-> FALSE, cmts |-> <<>>]} \cup
  {[ok |-> TRUE, cmts |-> c] : c \in UNION {[1..n -> KeyedCommits] : n \in 0..MaxBetween}}

\* the groups of changes.into_groups()
FullPrs ==
  [best_guess : BOOLEAN, head_oid : {<<>>, <<7>>}, between : Betweens, excludes : {{}, {1}}]

GroupLists == UNION {[1..n -> FullPrs] : n \in 0..MaxGroups}

KeyedErr == [ok |-> FALSE, kind |-> "", file |-> ""]

\* the closure reading files of commits the group excludes too
CommitKeyedFilesOfExcluded(pr, cmt) ==
  IF ~cmt.ok THEN <<KeyedErr>>
  ELSE IF ~cmt.files_ok THEN <<KeyedErr>>
  ELSE [k \in DOMAIN cmt.files |-> [ok |-> TRUE, kind |-> cmt.kind, file |-> cmt.files[k]]]

\* pr_keyed_files, the closure of its filter_map: what one commit contributes
CommitKeyedFiles(pr, cmt) ==
  IF ~cmt.ok THEN <<KeyedErr>>
  ELSE IF cmt.id \in pr.excludes THEN <<>>
  ELSE IF ~cmt.files_ok THEN <<KeyedErr>>
  ELSE [k \in DOMAIN cmt.files |-> [ok |-> TRUE, kind |-> cmt.kind, file |-> cmt.files[k]]]

RECURSIVE FlattenKeyed(_, _)
\* filter_map(..).flatten() over the commits
FlattenKeyed(pr, cmts) ==
  IF cmts = <<>> THEN <<>>
  ELSE CommitKeyedFiles(pr, Head(cmts)) \o FlattenKeyed(pr, Tail(cmts))

\* pr_keyed_files
PrKeyedFiles(pr) ==
  IF pr.head_oid = <<>> THEN <<>>
  ELSE IF ~pr.between.ok THEN <<KeyedErr>>
  ELSE FlattenKeyed(pr, pr.between.cmts)

KfInit == [pc |-> "idle", groups |-> <<>>, next |-> 1, vec |-> <<>>]

\* characters of a commit summary: a letter, a space and the two separators
SummaryChars == {"f", " ", ":", "("}

\* Commit::summary(): None, or a line of up to MaxSummary characters
Summaries ==
  {<<>>} \cup {<<line>> : line \in UNION {[1..n -> SummaryChars] : n \in 0..MaxSummary}}

\* trim leaving the text as it is
TrimNothing(text) == text

\* str::trim: the text without the whitespace at its two ends
Trim(text) ==
  LET solid == {i \in DOMAIN text : text[i] # " "}
  IN  IF solid = {} THEN <<>>
      ELSE SubSeq(text, CHOOSE i \in solid : \A j \in solid : i <= j,
                        CHOOSE i \in solid : \A j \in solid : i >= j)

\* get_changed_since, the kind of a commit: unwrap_or("-"), then the text up
\* to the first ':' or '(' trimmed, or "-" without any
KindOfSummary(opt) ==
  LET summary == IF opt = <<>> THEN <<"-">> ELSE opt[1]
      found == {i \in DOMAIN summary : summary[i] = ":" \/ summary[i] = "("}
  IN  IF found = {} THEN <<"-">>
      ELSE Trim(SubSeq(summary, 1, (CHOOSE i \in found : \A j \in found : i <= j) - 1))

CkInit == [pc |-> "idle", summary |-> <<>>, kind |-> <<>>]

-----------------------------------------------------------------------------
(* `run` and the repository it acts on *)

\* VcsLevel, lowest first
Levels == <<"None", "Local", "Remote", "Smart">>
LevelRank(l) == CHOOSE i \in DOMAIN Levels : Levels[i] = l
MinLevel(a, b) == IF LevelRank(a) <= LevelRank(b) THEN a ELSE b

\* the PR groups `run` can find between prev_tag and HEAD
Histories ==
  { <<>>,
    <<[number |-> 0, closed_at |-> 2, commits |-> <<"c1">>]>>,
    <<[number |-> 10, closed_at |-> 1, commits |-> <<"c2">>]>>,
    <<[number |-> 11, closed_at |-> 2, commits |-> <<"c3">>]>>,
    <<[number |-> 11, closed_at |-> 2, commits |-> <<"c2", "c3">>],
      [number |-> 10, closed_at |-> 1, commits |-> <<"c1", "c2">>]>>,
    <<[number |-> 0, closed_at |-> 2, commits |-> <<"cx">>]>> }

\* the version at the project's mark in the working tree
CurtVers(id) ==
  CASE id = 1 -> <<1, 2, 0>>
    [] id = 2 -> <<2, 0, 0>>
    [] OTHER -> <<0, 1, 0>>

\* the version at the project's mark as of prev_tag: <<>> for a project new since
PrevVers(id) ==
  CASE id = 1 -> <<<<1, 2, 0>>>>
    [] id = 2 -> <<<<1, 2, 0>>>>
    [] OTHER -> <<>>

\* whether the project's config names a change-log file
HasChangeLog(id) == id # 3

\* Size::apply
SizeApply(size, v) ==
  CASE size = SizeMajor -> <<v[1] + 1, 0, 0>>
    [] size = SizeMinor -> <<v[1], v[2] + 1, 0>>
    [] size = SizePatch -> <<v[1], v[2], v[3] + 1>>
    [] OTHER -> v

\* Size::less_than: semver order
LessThan(v, w) ==
  \/ v[1] < w[1]
  \/ v[1] = w[1] /\ v[2] < w[2]
  \/ v[1] = w[1] /\ v[2] = w[2] /\ v[3] < w[3]

\* Project::verify_restrictions: the locked project accepts major version 1 only
RestrictionOk(locked, id, v) == id # locked \/ v[1] = 1

\* VcsRange::detect_and_combine: the highest level the environment offers
\* within the preferred range, <<>> when that is below the required level
DetectAndCombine(pref, env, reqd) ==
  IF LevelRank(MinLevel(pref, env)) < LevelRank(reqd) THEN <<>> ELSE <<MinLevel(pref, env)>>

\* Repo::open: what the gateway may do before reading, as [fetched, merged];
\* only Smart may fetch, and fast-forward what it fetched
RepoOpen(level) ==
  {o \in [fetched : BOOLEAN, merged : BOOLEAN] :
     /\ o.fetched => level = "Smart"
     /\ o.merged => o.fetched}

RunInit ==
  [ pc |-> "start", dry |-> FALSE, all |-> FALSE, locked |-> 0, level |-> "None",
    fetched |-> FALSE, merged |-> FALSE, todo |-> {},
    marks |-> <<>>, logs |-> {}, tags |-> <<>>, verified |-> {}, out |-> <<>>,
    written |-> {}, committed |-> FALSE, tag_moved |-> FALSE, pushed |-> FALSE ]

\* the command line and the config `run` is started with
InitRun ==
  /\ pb = Created
  /\ depends \in Dags
  /\ pc = "run"
  /\ hist = <<>>
  /\ fileIdx = 0
  /\ result = "Ok"
  /\ last = NoCall
  /\ calls = 0
  /\ plan = <<>>
  /\ \E dry, all \in BOOLEAN : \E locked \in {0} \cup Projects :
       rn = [RunInit EXCEPT !.dry = dry, !.all = all, !.locked = locked]
  /\ git = GitInit
  /\ xml = XmlInit
  /\ lc = LcInit
  /\ di = DiInit
  /\ hd = HdInit
  /\ ot = OtInit
  /\ kf = KfInit
  /\ ck = CkInit

RunFrame == UNCHANGED <<pb, depends, pc, hist, fileIdx, result, last, calls, git, xml, lc, di, hd, ot, kf, ck>>

\* let mut mono = build(pref_vcs, None, Smart, Local, Smart)?: pref is the upper
\* end of the preferred range (Smart unless the user narrowed it), env the
\* highest level the environment offers; dry is not consulted
RunOpen ==
  /\ pc = "run" /\ rn.pc = "start"
  /\ \E pref \in Range(Levels), env \in Range(Levels) :
       LET vcs == DetectAndCombine(pref, env, "Local")
       IN  IF vcs = <<>>
           THEN rn' = [rn EXCEPT !.pc = "failed"]
           ELSE \E o \in RepoOpen(vcs[1]) :
                  rn' = [rn EXCEPT !.pc = "opened", !.level = vcs[1],
                                   !.fetched = o.fetched, !.merged = o.merged]
  /\ UNCHANGED plan
  /\ RunFrame

\* let plan = mono.build_plan()?
RunBuildPlan ==
  /\ pc = "run" /\ rn.pc = "opened"
  /\ \E prs \in Histories : \E ord \in Perms :
       /\ plan' = BuildPlan(prs, depends, ord)
       /\ rn' = [rn EXCEPT !.pc = IF plan' = <<>> THEN "failed" ELSE "planned"]
  /\ RunFrame

\* mono.check_branch(), then the test for an empty plan
RunCheck ==
  /\ pc = "run" /\ rn.pc = "planned"
  /\ \E branch_ok \in BOOLEAN :
       rn' = IF ~branch_ok THEN [rn EXCEPT !.pc = "failed"]
             ELSE IF DOMAIN plan[1].incrs = {}
                  THEN [rn EXCEPT !.pc = "done", !.out = Append(@, [kind |-> "empty"])]
                  ELSE [rn EXCEPT !.pc = "loop", !.todo = DOMAIN plan[1].incrs]
  /\ UNCHANGED plan
  /\ RunFrame

\* the exceeds line with the target before the current version
ForwardLineTargetFirst(all, prev, curt, target) ==
  IF ~all THEN <<>>
  ELSE IF prev = curt THEN <<"no change to", curt>>
  ELSE IF curt = target THEN <<"no change: already", prev, "->", target>>
  ELSE <<"no change:", prev, "->", target, "exceeds", curt>>

\* the line reported for a project whose current version is not below the
\* target: the words and values of the println!s, in order; <<>> for no line
ForwardLine(all, prev, curt, target) ==
  IF ~all THEN <<>>
  ELSE IF prev = curt THEN <<"no change to", curt>>
  ELSE IF curt = target THEN <<"no change: already", prev, "->", target>>
  ELSE <<"no change:", prev, "->", curt, "exceeds", target>>

\* a round that stages the mark rewrite without comparing curt_vers to target
RunProjectStepAlwaysSets(r, id) ==
  LET size == plan[1].incrs[id].size
      curt == CurtVers(id)
      prev == PrevVers(id)
      logged == IF HasChangeLog(id)
                THEN [r EXCEPT !.logs = @ \cup {id}, !.out = Append(@, [kind |-> "logged", id |-> id]),
                               !.todo = @ \ {id}]
                ELSE [r EXCEPT !.todo = @ \ {id}]
      target == SizeApply(size, prev[1])
      verify(v, then) ==
        IF RestrictionOk(r.locked, id, v)
        THEN [then EXCEPT !.verified = @ \cup {<<id, v>>}]
        ELSE [logged EXCEPT !.pc = "failed"]
      set == [logged EXCEPT
                !.marks = [p \in DOMAIN @ \cup {id} |-> IF p = id THEN target ELSE @[p]],
                !.out = Append(@, [kind |-> "changed", id |-> id, prev |-> prev[1],
                                   curt |-> curt, target |-> target])]
      forward(line) ==
        [logged EXCEPT
           !.tags = [p \in DOMAIN @ \cup {id} |-> IF p = id THEN curt ELSE @[p]],
           !.out = Append(@, line)]
  IN  IF size = SizeEmpty
      THEN [logged EXCEPT !.out = Append(@, [kind |-> "no_change", all |-> r.all, id |-> id,
                                             prev |-> prev, curt |-> curt])]
      ELSE IF prev # <<>>
           THEN IF TRUE
                THEN verify(target, set)
                ELSE verify(curt, forward([kind |-> "forward", all |-> r.all, id |-> id,
                                           prev |-> prev[1], curt |-> curt, target |-> target,
                                           line |-> ForwardLine(r.all, prev[1], curt, target)]))
           ELSE verify(curt, forward([kind |-> "new", all |-> r.all, id |-> id, curt |-> curt]))

\* a round that forwards the anchor tag of a project of size Empty
RunProjectStepEmptyForwards(r, id) ==
  LET size == plan[1].incrs[id].size
      curt == CurtVers(id)
      prev == PrevVers(id)
      logged == IF HasChangeLog(id)
                THEN [r EXCEPT !.logs = @ \cup {id}, !.out = Append(@, [kind |-> "logged", id |-> id]),
                               !.todo = @ \ {id}]
                ELSE [r EXCEPT !.todo = @ \ {id}]
      target == SizeApply(size, prev[1])
      verify(v, then) ==
        IF RestrictionOk(r.locked, id, v)
        THEN [then EXCEPT !.verified = @ \cup {<<id, v>>}]
        ELSE [logged EXCEPT !.pc = "failed"]
      set == [logged EXCEPT
                !.marks = [p \in DOMAIN @ \cup {id} |-> IF p = id THEN target ELSE @[p]],
                !.out = Append(@, [kind |-> "changed", id |-> id, prev |-> prev[1],
                                   curt |-> curt, target |-> target])]
      forward(line) ==
        [logged EXCEPT
           !.tags = [p \in DOMAIN @ \cup {id} |-> IF p = id THEN curt ELSE @[p]],
           !.out = Append(@, line)]
  IN  IF size = SizeEmpty
      THEN forward([kind |-> "no_change", all |-> r.all, id |-> id, prev |-> prev, curt |-> curt])
      ELSE IF prev # <<>>
           THEN IF LessThan(curt, target)
                THEN verify(target, set)
                ELSE verify(curt, forward([kind |-> "forward", all |-> r.all, id |-> id,
                                           prev |-> prev[1], curt |-> curt, target |-> target,
                                           line |-> ForwardLine(r.all, prev[1], curt, target)]))
           ELSE verify(curt, forward([kind |-> "new", all |-> r.all, id |-> id, curt |-> curt]))

\* a round that stages a mark rewrite for a project without previous version
RunProjectStepNewSets(r, id) ==
  LET size == plan[1].incrs[id].size
      curt == CurtVers(id)
      prev == PrevVers(id)
      logged == IF HasChangeLog(id)
                THEN [r EXCEPT !.logs = @ \cup {id}, !.out = Append(@, [kind |-> "logged", id |-> id]),
                               !.todo = @ \ {id}]
                ELSE [r EXCEPT !.todo = @ \ {id}]
      target == SizeApply(size, prev[1])
      verify(v, then) ==
        IF RestrictionOk(r.locked, id, v)
        THEN [then EXCEPT !.verified = @ \cup {<<id, v>>}]
        ELSE [logged EXCEPT !.pc = "failed"]
      set == [logged EXCEPT
                !.marks = [p \in DOMAIN @ \cup {id} |-> IF p = id THEN target ELSE @[p]],
                !.out = Append(@, [kind |-> "changed", id |-> id, prev |-> prev[1],
                                   curt |-> curt, target |-> target])]
      forward(line) ==
        [logged EXCEPT
           !.tags = [p \in DOMAIN @ \cup {id} |-> IF p = id THEN curt ELSE @[p]],
           !.out = Append(@, line)]
  IN  IF size = SizeEmpty
      THEN [logged EXCEPT !.out = Append(@, [kind |-> "no_change", all |-> r.all, id |-> id,
                                             prev |-> prev, curt |-> curt])]
      ELSE IF prev # <<>>
           THEN IF LessThan(curt, target)
                THEN verify(target, set)
                ELSE verify(curt, forward([kind |-> "forward", all |-> r.all, id |-> id,
                                           prev |-> prev[1], curt |-> curt, target |-> target,
                                           line |-> ForwardLine(r.all, prev[1], curt, target)]))
           ELSE verify(curt, [logged EXCEPT
                                !.marks = [p \in DOMAIN @ \cup {id} |-> IF p = id THEN curt ELSE @[p]],
                                !.out = Append(@, [kind |-> "new", all |-> r.all, id |-> id, curt |-> curt])])

\* one round of `for (id, (size, change_log)) in plan.incrs()`
RunProjectStep(r, id) ==
  LET size == plan[1].incrs[id].size
      curt == CurtVers(id)
      prev == PrevVers(id)
      logged == IF HasChangeLog(id)
                THEN [r EXCEPT !.logs = @ \cup {id}, !.out = Append(@, [kind |-> "logged", id |-> id]),
                               !.todo = @ \ {id}]
                ELSE [r EXCEPT !.todo = @ \ {id}]
      target == SizeApply(size, prev[1])
      verify(v, then) ==
        IF RestrictionOk(r.locked, id, v)
        THEN [then EXCEPT !.verified = @ \cup {<<id, v>>}]
        ELSE [logged EXCEPT !.pc = "failed"]
      set == [logged EXCEPT
                !.marks = [p \in DOMAIN @ \cup {id} |-> IF p = id THEN target ELSE @[p]],
                !.out = Append(@, [kind |-> "changed", id |-> id, prev |-> prev[1],
                                   curt |-> curt, target |-> target])]
      forward(line) ==
        [logged EXCEPT
           !.tags = [p \in DOMAIN @ \cup {id} |-> IF p = id THEN curt ELSE @[p]],
           !.out = Append(@, line)]
  IN  IF size = SizeEmpty
      THEN [logged EXCEPT !.out = Append(@, [kind |-> "no_change", all |-> r.all, id |-> id,
                                             prev |-> prev, curt |-> curt])]
      ELSE IF prev # <<>>
           THEN IF LessThan(curt, target)
                THEN verify(target, set)
                ELSE verify(curt, forward([kind |-> "forward", all |-> r.all, id |-> id,
                                           prev |-> prev[1], curt |-> curt, target |-> target,
                                           line |-> ForwardLine(r.all, prev[1], curt, target)]))
           ELSE verify(curt, forward([kind |-> "new", all |-> r.all, id |-> id, curt |-> curt]))

RunProject ==
  /\ pc = "run" /\ rn.pc = "loop"
  /\ \E id \in rn.todo : rn' = RunProjectStep(rn, id)
  /\ UNCHANGED plan
  /\ RunFrame

\* Mono::commit: the staged writes reach the working tree, one commit is made,
\* prev_tag and the forwarded tags move, branch and tags are pushed
Commit(r) ==
  [r EXCEPT !.written = DOMAIN r.marks \cup r.logs,
            !.committed = TRUE,
            !.tag_moved = TRUE,
            !.pushed = LevelRank(r.level) >= LevelRank("Remote"),
            !.out = Append(@, [kind |-> "commit"])]

\* a finish that commits although a round of the loop returned an error
RunFinishAfterError ==
  /\ pc = "run" /\ (rn.pc = "failed" \/ (rn.pc = "loop" /\ rn.todo = {})) /\ plan # <<>>
  /\ rn' = [(IF ~rn.dry THEN Commit(rn) ELSE [rn EXCEPT !.out = Append(@, [kind |-> "dry"])])
              EXCEPT !.pc = "done"]
  /\ UNCHANGED plan
  /\ RunFrame

\* if !dry { mono.commit()?; output.write_commit()? } else { output.write_dry()? }
RunFinish ==
  /\ pc = "run" /\ rn.pc = "loop" /\ rn.todo = {}
  /\ rn' = [(IF ~rn.dry THEN Commit(rn) ELSE [rn EXCEPT !.out = Append(@, [kind |-> "dry"])])
              EXCEPT !.pc = "done"]
  /\ UNCHANGED plan
  /\ RunFrame

NextRun ==
  \/ RunOpen
  \/ RunBuildPlan
  \/ RunCheck
  \/ RunProject
  \/ RunFinish

SpecRun == InitRun /\ [][NextRun]_vars

-----------------------------------------------------------------------------
(* pull_ff_only, step by step *)

\* pull_ff_only(repo, remote_name, remote_branch) is called: the branch is the
\* one named, or HEAD's; tip is that branch on the remote
InitPull ==
  /\ pb = Created
  /\ depends = NoDeps
  /\ pc = "pull"
  /\ hist = <<>>
  /\ fileIdx = 0
  /\ result = "Ok"
  /\ last = NoCall
  /\ calls = 0
  /\ plan = <<>>
  /\ rn = RunInit
  /\ \E r \in GitRepos : \E branch \in Branches : \E tip \in {0} \cup GitCommits :
       git = [GitInit EXCEPT !.pc = "start", !.repo = r, !.branch = branch, !.tip = tip]
  /\ xml = XmlInit
  /\ lc = LcInit
  /\ di = DiInit
  /\ hd = HdInit
  /\ ot = OtInit
  /\ kf = KfInit
  /\ ck = CkInit

PullFrame == UNCHANGED <<pb, depends, pc, hist, fileIdx, result, last, calls, plan, rn, xml, lc, di, hd, ot, kf, ck>>

\* let fetch_results = fetch(&repo, remote_name, remote_branch)?
PullFetch ==
  /\ pc = "pull" /\ git.pc = "start"
  /\ \E net_ok \in BOOLEAN :
       LET r == Fetch(git.repo, git.tip, net_ok)
       IN  git' = [git EXCEPT !.repo = r.b, !.res = r.res,
                              !.commit_oid = IF r.res = "Ok" THEN CommitOid(r.b) ELSE @,
                              !.pc = IF r.res = "Ok" THEN "fetched" ELSE "failed"]
  /\ PullFrame

\* merge_after_fetch(repo, &fetch_results)
PullMerge ==
  /\ pc = "pull" /\ git.pc = "fetched"
  /\ LET r == MergeAfterFetch(git.repo, git.branch, git.commit_oid)
     IN  git' = [git EXCEPT !.repo = r.b, !.res = r.res,
                            !.analysis = IF git.commit_oid # <<>> /\ ~git.repo.dirty
                                         THEN MergeAnalysis(git.repo, git.commit_oid[1])
                                         ELSE @,
                            !.pc = IF r.res = "Ok" THEN "done" ELSE "failed"]
  /\ PullFrame

NextPull ==
  \/ PullFetch
  \/ PullMerge

SpecPull == InitPull /\ [][NextPull]_vars

-----------------------------------------------------------------------------
(* XmlScanner::scan *)

\* a scanner made for loc is given a document
InitScan ==
  /\ pb = Created
  /\ depends = NoDeps
  /\ pc = "scan"
  /\ hist = <<>>
  /\ fileIdx = 0
  /\ result = "Ok"
  /\ last = NoCall
  /\ calls = 0
  /\ plan = <<>>
  /\ rn = RunInit
  /\ git = GitInit
  /\ \E data \in Docs : \E loc \in Locs :
       xml = [XmlInit EXCEPT !.pc = "given", !.data = data, !.loc = loc]
  /\ lc = LcInit
  /\ di = DiInit
  /\ hd = HdInit
  /\ ot = OtInit
  /\ kf = KfInit
  /\ ck = CkInit

\* let byte_mark = scan_xml(data.data(), self.target.clone())
Scan ==
  /\ pc = "scan" /\ xml.pc = "given"
  /\ xml' = [xml EXCEPT !.pc = "scanned", !.mark = ScanXml(xml.data, xml.loc)]
  /\ UNCHANGED <<pb, depends, pc, hist, fileIdx, result, last, calls, plan, rn, git, lc, di, hd, ot, kf, ck>>

NextScan == Scan

SpecScan == InitScan /\ [][NextScan]_vars

-----------------------------------------------------------------------------
(* Mono::build_plan *)

Init ==
  /\ pb = Created
  /\ depends \in Dags
  /\ pc = "prs"
  /\ hist = <<>>
  /\ fileIdx = 0
  /\ result = "Ok"
  /\ last = NoCall
  /\ calls = 0
  /\ plan = <<>>
  /\ rn = RunInit
  /\ git = GitInit
  /\ xml = XmlInit
  /\ lc = LcInit
  /\ di = DiInit
  /\ hd = HdInit
  /\ ot = OtInit
  /\ kf = KfInit
  /\ ck = CkInit

\* the commit build_plan is visiting
OnOid == hist[Len(hist)].commits[Len(hist[Len(hist)].commits)]

\* build_plan going on after a builder call whatever it returned
AfterAnyResult(next) == next

\* `?` after a builder call: an error ends build_plan
After(next) == IF result' = "Ok" THEN next ELSE "failed"

\* for pr in groups.values() { plan.start_pr(pr)?
BpStartPr ==
  /\ pc = "prs"
  /\ Len(hist) < MaxPrs
  /\ \E pr \in Prs :
       /\ \A i \in DOMAIN hist : hist[i].number # pr.number
       /\ CallStartPr(pr)
       /\ hist' = Append(hist, [number |-> pr.number, closed_at |-> pr.closed_at, commits |-> <<>>])
  /\ pc' = After("commits")
  /\ UNCHANGED <<depends, fileIdx, calls, plan, rn, git, xml, lc, di, hd, ot, kf, ck>>

\* for commit in pr.included_commits() { plan.start_commit(commit.clone())?
BpStartCommit ==
  /\ pc = "commits"
  /\ Len(hist[Len(hist)].commits) < MaxCommits
  /\ \E oid \in Oids \ Range(hist[Len(hist)].commits) :
       /\ CallStartCommit(oid)
       /\ hist' = [hist EXCEPT ![Len(hist)].commits = Append(@, oid)]
  /\ fileIdx' = 1
  /\ pc' = After("files")
  /\ UNCHANGED <<depends, calls, plan, rn, git, xml, lc, di, hd, ot, kf, ck>>

\* for file in commit.files() { plan.start_file(file)?
BpStartFile ==
  /\ pc = "files"
  /\ fileIdx <= Len(CommitFiles(OnOid))
  /\ CallStartFile(CommitFiles(OnOid)[fileIdx])
  /\ pc' = After("file")
  /\ UNCHANGED <<depends, hist, fileIdx, calls, plan, rn, git, xml, lc, di, hd, ot, kf, ck>>

\* plan.finish_file()? }
BpFinishFile ==
  /\ pc = "file"
  /\ CallFinishFile
  /\ fileIdx' = fileIdx + 1
  /\ pc' = After("files")
  /\ UNCHANGED <<depends, hist, calls, plan, rn, git, xml, lc, di, hd, ot, kf, ck>>

\* plan.finish_commit()? }
BpFinishCommit ==
  /\ pc = "files"
  /\ fileIdx > Len(CommitFiles(OnOid))
  /\ CallFinishCommit
  /\ pc' = After("commits")
  /\ UNCHANGED <<depends, hist, fileIdx, calls, plan, rn, git, xml, lc, di, hd, ot, kf, ck>>

\* plan.finish_pr()? }
BpFinishPr ==
  /\ pc = "commits"
  /\ CallFinishPr
  /\ pc' = After("prs")
  /\ UNCHANGED <<depends, hist, fileIdx, calls, plan, rn, git, xml, lc, di, hd, ot, kf, ck>>

\* plan.handle_deps()?
BpHandleDeps ==
  /\ pc = "prs"
  /\ \E ord \in Perms : CallHandleDeps(ord)
  /\ pc' = After("deps")
  /\ UNCHANGED <<depends, hist, fileIdx, calls, plan, rn, git, xml, lc, di, hd, ot, kf, ck>>

\* plan.sort_and_dedup()?
BpSortAndDedup ==
  /\ pc = "deps"
  /\ CallSortAndDedup
  /\ pc' = After("sorted")
  /\ UNCHANGED <<depends, hist, fileIdx, calls, plan, rn, git, xml, lc, di, hd, ot, kf, ck>>

\* Ok(plan.build())
BpBuild ==
  /\ pc = "sorted"
  /\ plan' = <<Build(pb)>>
  /\ pc' = "built"
  /\ UNCHANGED <<pb, depends, hist, fileIdx, result, last, calls, rn, git, xml, lc, di, hd, ot, kf, ck>>

Next ==
  \/ BpStartPr
  \/ BpStartCommit
  \/ BpStartFile
  \/ BpFinishFile
  \/ BpFinishCommit
  \/ BpFinishPr
  \/ BpHandleDeps
  \/ BpSortAndDedup
  \/ BpBuild

Spec == Init /\ [][Next]_vars

-----------------------------------------------------------------------------
(* The builder's event methods called in any order *)

\* the paths a caller can pass to start_file
Paths == UNION {Range(CommitFiles(oid)) : oid \in Oids} \cup {"app/z"}

InitApi ==
  /\ pb = Created
  /\ depends = [NoDeps EXCEPT ![2] = {1}, ![3] = {2}]
  /\ pc = "api"
  /\ hist = <<>>
  /\ fileIdx = 0
  /\ result = "Ok"
  /\ last = NoCall
  /\ calls = 0
  /\ plan = <<>>
  /\ rn = RunInit
  /\ git = GitInit
  /\ xml = XmlInit
  /\ lc = LcInit
  /\ di = DiInit
  /\ hd = HdInit
  /\ ot = OtInit
  /\ kf = KfInit
  /\ ck = CkInit

\* a caller holding the builder makes one more call, unless the last one panicked
ApiCall ==
  /\ pc = "api"
  /\ calls < MaxCalls
  /\ result # "Panic"
  /\ calls' = calls + 1
  /\ UNCHANGED <<depends, pc, hist, fileIdx, plan, rn, git, xml, lc, di, hd, ot, kf, ck>>

ApiStartPr == ApiCall /\ \E pr \in Prs : CallStartPr(pr)
ApiStartCommit == ApiCall /\ \E oid \in Oids : CallStartCommit(oid)
ApiStartFile == ApiCall /\ \E path \in Paths : CallStartFile(path)
ApiFinishFile == ApiCall /\ CallFinishFile
ApiFinishCommit == ApiCall /\ CallFinishCommit
ApiFinishPr == ApiCall /\ CallFinishPr

NextApi ==
  \/ ApiStartPr
  \/ ApiStartCommit
  \/ ApiStartFile
  \/ ApiFinishFile
  \/ ApiFinishCommit
  \/ ApiFinishPr

SpecApi == InitApi /\ [][NextApi]_vars

-----------------------------------------------------------------------------
(* find_last_commits *)

\* let mut last_commits = LastCommitBuilder::create(repo, &current)?
InitLast ==
  /\ pb = Created
  /\ depends = NoDeps
  /\ pc = "line"
  /\ hist = <<>>
  /\ fileIdx = 0
  /\ result = "Ok"
  /\ last = NoCall
  /\ calls = 0
  /\ plan = <<>>
  /\ rn = RunInit
  /\ git = GitInit
  /\ xml = XmlInit
  /\ \E line \in Lines : lc = [LcInit EXCEPT !.line = line]
  /\ di = DiInit
  /\ hd = HdInit
  /\ ot = OtInit
  /\ kf = KfInit
  /\ ck = CkInit

LastFrame == UNCHANGED <<pb, depends, hist, last, calls, plan, rn, git, xml, di, hd, ot, kf, ck>>

\* the line commit find_last_commits is visiting
OnLine == lc.line[lc.at]

\* for commit in line_commits_head(repo, prev_spec)? { last_commits.start_line_commit(&commit)?
LcStartLineCommit ==
  /\ pc = "line"
  /\ lc.at < Len(lc.line)
  /\ LET r == StartLineCommit(lc.b, lc.line[lc.at + 1])
     IN  /\ lc' = [lc EXCEPT !.b = r.b, !.at = @ + 1]
         /\ result' = r.res
  /\ fileIdx' = 1
  /\ pc' = After("lfiles")
  /\ LastFrame

\* for file in commit.files() { last_commits.start_line_file(file)?
LcStartLineFile ==
  /\ pc = "lfiles"
  /\ fileIdx <= Len(CommitFiles(OnLine))
  /\ LET r == StartLineFile(lc.b, CommitFiles(OnLine)[fileIdx])
     IN  /\ lc' = [lc EXCEPT !.b = r.b]
         /\ result' = r.res
  /\ pc' = After("lfile")
  /\ UNCHANGED fileIdx
  /\ LastFrame

\* last_commits.finish_line_file()? }
LcFinishLineFile ==
  /\ pc = "lfile"
  /\ LET r == FinishLineFile(lc.b)
     IN  /\ lc' = [lc EXCEPT !.b = r.b]
         /\ result' = r.res
  /\ fileIdx' = fileIdx + 1
  /\ pc' = After("lfiles")
  /\ LastFrame

\* last_commits.finish_line_commit()? }
LcFinishLineCommit ==
  /\ pc = "lfiles"
  /\ fileIdx > Len(CommitFiles(OnLine))
  /\ LET r == FinishLineCommit(lc.b)
     IN  /\ lc' = [lc EXCEPT !.b = r.b]
         /\ result' = r.res
  /\ pc' = After("line")
  /\ UNCHANGED fileIdx
  /\ LastFrame

\* last_commits.build()
LcBuild ==
  /\ pc = "line"
  /\ lc.at = Len(lc.line)
  /\ lc' = [lc EXCEPT !.built = <<LastBuild(lc.b)>>]
  /\ pc' = "lbuilt"
  /\ UNCHANGED <<fileIdx, result>>
  /\ LastFrame

NextLast ==
  \/ LcStartLineCommit
  \/ LcStartLineFile
  \/ LcFinishLineFile
  \/ LcFinishLineCommit
  \/ LcBuild

SpecLast == InitLast /\ [][NextLast]_vars

-----------------------------------------------------------------------------
(* get_changed_since: the paths of one commit *)

\* the iterator flat_map gets for a commit with the given parents and diff
InitDelta ==
  /\ pb = Created
  /\ depends = NoDeps
  /\ pc = "delta"
  /\ hist = <<>>
  /\ fileIdx = 0
  /\ result = "Ok"
  /\ last = NoCall
  /\ calls = 0
  /\ plan = <<>>
  /\ rn = RunInit
  /\ git = GitInit
  /\ xml = XmlInit
  /\ lc = LcInit
  /\ \E parents \in 0..2 : \E diff \in Diffs :
       /\ parents # 1 => diff = <<>>
       /\ di = [kind |-> ChangedIter(parents, diff).kind,
                it |-> ChangedIter(parents, diff).it,
                out |-> <<>>]
  /\ hd = HdInit
  /\ ot = OtInit
  /\ kf = KfInit
  /\ ck = CkInit

\* one call of next() on the iterator of the commit
DiNext ==
  /\ pc = "delta"
  /\ Len(di.out) < 2 * MaxDeltas + 2
  /\ di' = IF di.kind = "B"
           THEN [di EXCEPT !.it = DeltaIterNext(di.it).it,
                           !.out = Append(@, DeltaIterNext(di.it).item)]
           ELSE [di EXCEPT !.out = Append(@, <<>>)]
  /\ UNCHANGED <<pb, depends, pc, hist, fileIdx, result, last, calls, plan, rn, git, xml, lc, hd, ot, kf, ck>>

NextDelta == DiNext

SpecDelta == InitDelta /\ [][NextDelta]_vars

-----------------------------------------------------------------------------
(* handle_deps on any dependency graph *)

\* the builder after some finish_pr calls: no size yet, or project 1 Major
InitDeps ==
  /\ pb \in {Created,
             [Created EXCEPT !.incrs = [p \in {1} |-> [size |-> SizeMajor, log |-> <<>>]]]}
  /\ depends \in DepGraphs
  /\ pc = "hdeps"
  /\ hist = <<>>
  /\ fileIdx = 0
  /\ result = "Ok"
  /\ last = NoCall
  /\ calls = 0
  /\ plan = <<>>
  /\ rn = RunInit
  /\ git = GitInit
  /\ xml = XmlInit
  /\ lc = LcInit
  /\ di = DiInit
  /\ hd = HdInit
  /\ ot = OtInit
  /\ kf = KfInit
  /\ ck = CkInit

DepsFrame ==
  UNCHANGED <<depends, pc, hist, fileIdx, result, last, calls, plan, rn, git, xml, lc, di,
              ot, kf, ck>>

\* the ids of a queue, in queue order
IdsOf(queue) == [i \in DOMAIN queue |-> queue[i].id]

\* handle_deps, the first loop: dependents is filled and the queue is seeded
HdSeed ==
  /\ pc = "hdeps" /\ hd.pc = "idle"
  /\ LET queue == SeedQueue(ProjectList, depends, pb.incrs)
     IN  hd' = [hd EXCEPT !.pc = "loop", !.queue = queue,
                          !.dependents = Dependents(depends), !.enq = IdsOf(queue)]
  /\ UNCHANGED pb
  /\ DepsFrame

\* one pass of `while let Some((id, size)) = queue.pop_front()`
HdPop ==
  /\ pc = "hdeps" /\ hd.pc = "loop"
  /\ hd.queue # <<>>
  /\ \E ord \in Perms :
       LET id == Head(hd.queue).id
           size == Head(hd.queue).size
           popped == [queue |-> Tail(hd.queue), dependents |-> hd.dependents,
                      incrs |-> EnterProject(pb.incrs, id, size)]
           depds == IF id \in DOMAIN hd.dependents THEN InOrder(hd.dependents[id], ord)
                    ELSE <<>>
           st == VisitDepds(depds, id, size, popped)
       IN  /\ pb' = [pb EXCEPT !.incrs = st.incrs]
           /\ hd' = [hd EXCEPT
                       !.queue = st.queue,
                       !.dependents = st.dependents,
                       !.deq = Append(@, id),
                       !.enq = @ \o IdsOf(SubSeq(st.queue, Len(hd.queue), Len(st.queue))),
                       !.removed = @ \o [i \in DOMAIN depds |-> <<id, depds[i]>>]]
  /\ DepsFrame

\* the queue is empty: Ok(())
HdDone ==
  /\ pc = "hdeps" /\ hd.pc = "loop"
  /\ hd.queue = <<>>
  /\ hd' = [hd EXCEPT !.pc = "done"]
  /\ UNCHANGED pb
  /\ DepsFrame

NextDeps ==
  \/ HdSeed
  \/ HdPop
  \/ HdDone

\* the loop is sequential code: it goes on while a pass can be made
SpecDeps == InitDeps /\ [][NextDeps]_vars /\ WF_vars(NextDeps)

-----------------------------------------------------------------------------
(* get_changed_since: the kind of one commit *)

\* flat_map has found the commit; its summary is any of Summaries
InitKind ==
  /\ pb = Created
  /\ depends = NoDeps
  /\ pc = "kind"
  /\ hist = <<>>
  /\ fileIdx = 0
  /\ result = "Ok"
  /\ last = NoCall
  /\ calls = 0
  /\ plan = <<>>
  /\ rn = RunInit
  /\ git = GitInit
  /\ xml = XmlInit
  /\ lc = LcInit
  /\ di = DiInit
  /\ hd = HdInit
  /\ ot = OtInit
  /\ kf = KfInit
  /\ \E summary \in Summaries : ck = [CkInit EXCEPT !.pc = "given", !.summary = summary]

\* let summary = ...; let kind = ...; let kind = kind.to_string()
CkKind ==
  /\ pc = "kind" /\ ck.pc = "given"
  /\ ck' = [ck EXCEPT !.pc = "done", !.kind = KindOfSummary(ck.summary)]
  /\ UNCHANGED <<pb, depends, pc, hist, fileIdx, result, last, calls, plan, rn, git, xml, lc,
                 di, hd, ot, kf>>

NextKind == CkKind

SpecKind == InitKind /\ [][NextKind]_vars

-----------------------------------------------------------------------------
(* find_old_tags *)

InitTags ==
  /\ pb = Created
  /\ depends = NoDeps
  /\ pc = "tags"
  /\ hist = <<>>
  /\ fileIdx = 0
  /\ result = "Ok"
  /\ last = NoCall
  /\ calls = 0
  /\ plan = <<>>
  /\ rn = RunInit
  /\ git = GitInit
  /\ xml = XmlInit
  /\ lc = LcInit
  /\ di = DiInit
  /\ hd = HdInit
  /\ \E at \in TagPlacings : ot = [OtInit EXCEPT !.pc = "given", !.at = at]
  /\ kf = KfInit
  /\ ck = CkInit

TagsFrame ==
  UNCHANGED <<pb, depends, pc, hist, fileIdx, result, last, calls, plan, rn, git, xml, lc, di,
              hd, kf, ck>>

\* for tag_prefix in prefixes { for tag in repo.tag_names(..) { .. } }
OtCollect ==
  /\ pc = "tags" /\ ot.pc = "given"
  /\ ot' = [ot EXCEPT !.pc = "walk", !.per = ByPrefixId(ot.at)]
  /\ TagsFrame

\* for commit_oid in repo.commits_to_head(prev_tag)? { for (prefix, by_id) .. }
OtWalk ==
  /\ pc = "tags" /\ ot.pc = "walk"
  /\ ot.walked < Len(Walk)
  /\ ot' = [ot EXCEPT !.walked = @ + 1,
                      !.per = [prefix \in DOMAIN @ |-> WalkPrefix(@[prefix], Walk[ot.walked + 1])]]
  /\ TagsFrame

\* Ok(OldTags::new(by_prefix, not_after))
OtDone ==
  /\ pc = "tags" /\ ot.pc = "walk"
  /\ ot.walked = Len(Walk)
  /\ ot' = [ot EXCEPT !.pc = "done"]
  /\ TagsFrame

NextTags ==
  \/ OtCollect
  \/ OtWalk
  \/ OtDone

SpecTags == InitTags /\ [][NextTags]_vars

-----------------------------------------------------------------------------
(* keyed_files *)

InitKeyed ==
  /\ pb = Created
  /\ depends = NoDeps
  /\ pc = "keyed"
  /\ hist = <<>>
  /\ fileIdx = 0
  /\ result = "Ok"
  /\ last = NoCall
  /\ calls = 0
  /\ plan = <<>>
  /\ rn = RunInit
  /\ git = GitInit
  /\ xml = XmlInit
  /\ lc = LcInit
  /\ di = DiInit
  /\ hd = HdInit
  /\ ot = OtInit
  /\ \E groups \in GroupLists : kf = [KfInit EXCEPT !.pc = "groups", !.groups = groups]
  /\ ck = CkInit

KeyedFrame ==
  UNCHANGED <<pb, depends, pc, hist, fileIdx, result, last, calls, plan, rn, git, xml, lc, di,
              hd, ot, ck>>

\* .filter(|pr| !pr.best_guess()) letting a group through:
\* vec.push(pr_keyed_files(&self.repo, pr))
KfPush ==
  /\ pc = "keyed" /\ kf.pc = "groups"
  /\ kf.next \in DOMAIN kf.groups
  /\ ~kf.groups[kf.next].best_guess
  /\ kf' = [kf EXCEPT !.next = @ + 1, !.vec = @ \o PrKeyedFiles(kf.groups[kf.next])]
  /\ KeyedFrame

\* .filter(|pr| !pr.best_guess()) dropping a group
KfSkip ==
  /\ pc = "keyed" /\ kf.pc = "groups"
  /\ kf.next \in DOMAIN kf.groups
  /\ kf.groups[kf.next].best_guess
  /\ kf' = [kf EXCEPT !.next = @ + 1]
  /\ KeyedFrame

\* Ok(vec.into_iter().flatten())
KfDone ==
  /\ pc = "keyed" /\ kf.pc = "groups"
  /\ kf.next \notin DOMAIN kf.groups
  /\ kf' = [kf EXCEPT !.pc = "done"]
  /\ KeyedFrame

NextKeyed ==
  \/ KfPush
  \/ KfSkip
  \/ KfDone

SpecKeyed == InitKeyed /\ [][NextKeyed]_vars

-----------------------------------------------------------------------------
(* Properties of a plan build *)

AfterDeps == {"deps", "sorted", "built"}
AfterSort == {"sorted", "built"}

SizeIn(incrs, p) == IncrOf(incrs, p).size
LogIn(incrs, p) == IncrOf(incrs, p).log

\* the PR handed to the builder i-th
Fed(i) == hist[i]

\* C1: after handle_deps, on an acyclic graph over the current projects, every
\* project's size is at least the size of each project it depends on
C1_DepsMonotone ==
  pc \in AfterDeps =>
    \A b \in Projects : \A a \in depends[b] :
      SizeIn(pb.incrs, b) >= SizeIn(pb.incrs, a)

\* a size set by direct commits reached, over two edges, a project without any
\* change-log entry of its own
C1_Witness ==
  /\ pc = "deps"
  /\ \E a, b, c \in Projects :
       /\ a \in depends[b] /\ b \in depends[c]
       /\ LogIn(pb.incrs, a) # <<>> /\ LogIn(pb.incrs, c) = <<>>
       /\ SizeIn(pb.incrs, a) > SizeEmpty
       /\ SizeIn(pb.incrs, c) = SizeIn(pb.incrs, a)

\* commit oid has a file that the project with id p covers in the config sliced at oid
Attributed(oid, p) ==
  /\ ConfigAt(oid) # <<>>
  /\ \E i \in DOMAIN CommitFiles(oid) : \E k \in DOMAIN ConfigAt(oid)[1] :
       /\ ConfigAt(oid)[1][k].id = p
       /\ DoesCover(ConfigAt(oid)[1][k], CommitFiles(oid)[i])

AppliesAsSliced(lp, p) ==
  \A i \in DOMAIN lp.commits : lp.commits[i].applies <=> Attributed(lp.commits[i].oid, p)

\* C2: once a commit of a PR has been visited, it applies to current project X
\* exactly when the project with X's id in the config sliced at that commit
\* covers one of its files; the current config's covers play no part
C2_AttributionLocality ==
  /\ pc \in {"commits", "prs"} \cup AfterDeps =>
       \A p \in DOMAIN pb.on_pr_sizes : AppliesAsSliced(pb.on_pr_sizes[p], p)
  /\ pc # "failed" =>
       \A p \in DOMAIN pb.incrs : \A i \in DOMAIN pb.incrs[p].log :
         AppliesAsSliced(pb.incrs[p].log[i].pr, p)

\* project 1 logged a PR in which c1 (old/x, covered only by the old config)
\* applies and c3 (old/x again, under the new config) does not
C2_Witness ==
  /\ pc = "prs"
  /\ \E i \in DOMAIN LogIn(pb.incrs, 1) :
       LET cs == pb.incrs[1].log[i].pr.commits
       IN  /\ \E k \in DOMAIN cs : cs[k].oid = "c1" /\ cs[k].applies
           /\ \E k \in DOMAIN cs : cs[k].oid = "c3" /\ ~cs[k].applies

\* the entries of p's change log in which oid is included
IncludedIn(incrs, p, oid) ==
  {i \in DOMAIN LogIn(incrs, p) :
     \E k \in DOMAIN incrs[p].log[i].pr.commits :
       /\ incrs[p].log[i].pr.commits[k].oid = oid
       /\ Included(incrs[p].log[i].pr.commits[k])}

\* C3 as claimed: after sort_and_dedup, over the change logs of all projects
\* taken together, every commit oid is included in at most one LoggedPr
C3_GlobalUnique ==
  pc \in AfterSort =>
    \A oid \in Oids :
      Cardinality({pi \in Projects \X (1..MaxPrs) :
                     pi[2] \in IncludedIn(pb.incrs, pi[1], oid)}) <= 1

\* C3 as amended: after sort_and_dedup, within each project's change log every
\* commit oid is included in at most one LoggedPr; the logs of different
\* projects include it once each, under the same PR
C3_PerLogUnique ==
  pc \in AfterSort =>
    \A oid \in Oids :
      /\ \A p \in Projects : Cardinality(IncludedIn(pb.incrs, p, oid)) <= 1
      /\ \A p, q \in Projects :
           \A i \in IncludedIn(pb.incrs, p, oid) : \A j \in IncludedIn(pb.incrs, q, oid) :
             pb.incrs[p].log[i].pr.number = pb.incrs[q].log[j].pr.number

\* one change log holds the same applying commit under two PRs, included in
\* the first and a duplicate in the second
C3_Witness ==
  /\ pc = "sorted"
  /\ \E p \in Projects : \E oid \in Oids :
       /\ Len(LogIn(pb.incrs, p)) = 2
       /\ IncludedIn(pb.incrs, p, oid) = {1}
       /\ \E k \in DOMAIN pb.incrs[p].log[2].pr.commits :
            LET c == pb.incrs[p].log[2].pr.commits[k]
            IN  c.oid = oid /\ c.applies /\ c.duplicate

\* C4: after sort_and_dedup every change log is in non-decreasing closed_at
\* order, whatever the order the PRs were fed in
C4_LogSorted ==
  pc \in AfterSort =>
    \A p \in DOMAIN pb.incrs : \A i, j \in DOMAIN pb.incrs[p].log :
      i < j => pb.incrs[p].log[i].pr.closed_at <= pb.incrs[p].log[j].pr.closed_at

\* a change log lists PR 10 first although a later-closed PR was fed before it
C4_Witness ==
  /\ pc = "sorted"
  /\ Len(hist) = 2 /\ Fed(1).closed_at > Fed(2).closed_at
  /\ \E p \in Projects :
       /\ Len(LogIn(pb.incrs, p)) = 2
       /\ pb.incrs[p].log[1].pr.number = Fed(2).number
       /\ pb.incrs[p].log[2].pr.number = Fed(1).number

\* C5: once handle_deps has run every current project is a key of incrs, with
\* Size::None and an empty change log when no PR was processed at all
C5_EveryProjectKeyed ==
  pc \in AfterDeps =>
    /\ DOMAIN pb.incrs = Projects
    /\ hist = <<>> => \A p \in Projects : pb.incrs[p] = EmptyIncr

\* handle_deps ran on a config with dependencies before any PR was processed
C5_Witness ==
  /\ pc = "deps"
  /\ hist = <<>>
  /\ \E p \in Projects : depends[p] # {} /\ p \in DOMAIN pb.incrs

\* the only PR of the range was fed and none of its commits touches a covered path
OnlyPrIneffective ==
  /\ pc = "built"
  /\ Len(hist) = 1
  /\ \A k \in DOMAIN Fed(1).commits : \A p \in Projects : ~Attributed(Fed(1).commits[k], p)

\* C6 as claimed: in scenario S4 the built plan has an empty incrs map and its
\* ineffective list contains the PR
C6_IncrsEmpty ==
  OnlyPrIneffective =>
    /\ DOMAIN plan[1].incrs = {}
    /\ \E i \in DOMAIN plan[1].ineffective : plan[1].ineffective[i].number = Fed(1).number

\* C6 as amended: in scenario S4 the built plan's incrs map has an entry for
\* every current project, each with Size::None and an empty change log, and
\* its ineffective list is that PR
C6_IncrsAllNone ==
  OnlyPrIneffective =>
    /\ DOMAIN plan[1].incrs = Projects
    /\ \A p \in Projects : plan[1].incrs[p] = EmptyIncr
    /\ plan[1].ineffective = <<Capture(Fed(1))>>

\* the plan was built from one PR whose only commit touches old/x and app/t,
\* which no project of the config at that commit covers
C6_Witness ==
  /\ OnlyPrIneffective
  /\ Fed(1).commits = <<"c3">>
  /\ Len(plan[1].ineffective) = 1

\* the entries of p's change log that list oid
Listing(incrs, p, oid) ==
  {i \in DOMAIN LogIn(incrs, p) :
     \E k \in DOMAIN incrs[p].log[i].pr.commits : incrs[p].log[i].pr.commits[k].oid = oid}

DuplicateIn(incrs, p, i, oid) ==
  \A k \in DOMAIN incrs[p].log[i].pr.commits :
    incrs[p].log[i].pr.commits[k].oid = oid => incrs[p].log[i].pr.commits[k].duplicate

FreshIn(incrs, p, i, oid) ==
  \A k \in DOMAIN incrs[p].log[i].pr.commits :
    incrs[p].log[i].pr.commits[k].oid = oid => ~incrs[p].log[i].pr.commits[k].duplicate

\* C7: when a commit oid is listed by two PRs of a project's change log, after
\* sort_and_dedup it is a duplicate in every PR closed later than another one
\* listing it, and not a duplicate in the PR closed before all others
C7_FirstClosedClaims ==
  pc \in AfterSort =>
    \A p \in Projects : \A oid \in Oids :
      \A i \in Listing(pb.incrs, p, oid) :
        LET at(j) == pb.incrs[p].log[j].pr.closed_at
            others == Listing(pb.incrs, p, oid) \ {i}
        IN  /\ (\E j \in others : at(j) < at(i)) => DuplicateIn(pb.incrs, p, i, oid)
            /\ (\A j \in others : at(i) < at(j)) => FreshIn(pb.incrs, p, i, oid)

\* the later-closed PR was fed first, and still the earlier-closed PR keeps
\* the shared commit while the later one reports it as duplicate
C7_Witness ==
  /\ pc = "sorted"
  /\ Len(hist) = 2 /\ Fed(1).closed_at > Fed(2).closed_at
  /\ \E p \in Projects : \E oid \in Oids :
       /\ Listing(pb.incrs, p, oid) = {1, 2}
       /\ pb.incrs[p].log[1].pr.number = Fed(2).number
       /\ FreshIn(pb.incrs, p, 1, oid)
       /\ DuplicateIn(pb.incrs, p, 2, oid)
       /\ IncludedIn(pb.incrs, p, oid) = {1}

-----------------------------------------------------------------------------
(* Properties of the builder's protocol *)

\* C8 as claimed: start_file called outside a start_commit/finish_commit pair
\* fails and marks no commit as applying
C8_StartFileOnlyInCommit ==
  (last.op = "start_file" /\ ~last.in_commit) => (result = "Err" /\ ~last.marked)

\* C9 as claimed: start_commit called outside a start_pr/finish_pr pair fails
C9_StartCommitOnlyInPr ==
  (last.op = "start_commit" /\ ~last.in_pr) => result = "Err"

-----------------------------------------------------------------------------
(* Properties of `run` *)

\* C10 as claimed: with dry set, run never fetches or merges, writes no file,
\* makes no commit, moves no tag and pushes nothing
C10_DryRunNeverMutates ==
  rn.dry =>
    /\ ~rn.fetched /\ ~rn.merged
    /\ rn.written = {}
    /\ ~rn.committed /\ ~rn.tag_moved /\ ~rn.pushed

\* the projects whose round of the loop ended without error
Processed ==
  IF rn.pc \in {"loop", "done"} /\ plan # <<>> THEN DOMAIN plan[1].incrs \ rn.todo ELSE {}

\* the planned size of a project, and the version it yields from the previous one
PlanSize(id) == plan[1].incrs[id].size
TargetOf(id) == SizeApply(PlanSize(id), PrevVers(id)[1])

\* the records run wrote about a project
Records(kind, id) == {i \in DOMAIN rn.out : rn.out[i].kind = kind /\ rn.out[i].id = id}

\* C11: for a processed project with a non-Empty size and a previous version,
\* with target = size.apply(prev_vers): if curt_vers < target the mark rewrite
\* staged is exactly target and target passed the restrictions; otherwise no
\* mark rewrite is staged and the anchor tag is forwarded at curt_vers; and no
\* mark is ever staged at a version the restrictions were not verified against
C11_BumpOrForward ==
  /\ \A id \in DOMAIN rn.marks : <<id, rn.marks[id]>> \in rn.verified
  /\ \A id \in Processed :
       (PlanSize(id) # SizeEmpty /\ PrevVers(id) # <<>>) =>
         IF LessThan(CurtVers(id), TargetOf(id))
         THEN /\ id \in DOMAIN rn.marks
              /\ rn.marks[id] = TargetOf(id)
              /\ <<id, TargetOf(id)>> \in rn.verified
         ELSE /\ id \notin DOMAIN rn.marks
              /\ id \in DOMAIN rn.tags
              /\ rn.tags[id] = CurtVers(id)
              /\ <<id, CurtVers(id)>> \in rn.verified

\* run ended having bumped project 1 and having left project 2, which a human
\* had already bumped beyond the target, at its current version
C11_Witness ==
  /\ rn.pc = "done"
  /\ 1 \in DOMAIN rn.marks /\ LessThan(CurtVers(1), rn.marks[1])
  /\ PlanSize(2) >= SizePatch
  /\ 2 \in DOMAIN rn.tags /\ 2 \notin DOMAIN rn.marks
  /\ LessThan(TargetOf(2), CurtVers(2))

\* C12: a project whose planned size is Empty never has a mark rewrite staged,
\* an anchor tag forwarded or a restriction verified, and once processed it
\* has a no-change record
C12_EmptyNoMutation ==
  plan # <<>> =>
    \A id \in DOMAIN plan[1].incrs :
      PlanSize(id) = SizeEmpty =>
        /\ id \notin DOMAIN rn.marks
        /\ id \notin DOMAIN rn.tags
        /\ \A v \in rn.verified : v[1] # id
        /\ id \in Processed => Records("no_change", id) # {}

\* run ended with a project of size Empty that has a previous version, one that
\* has none, and a project of another size whose anchor tag it forwarded
C12_Witness ==
  /\ rn.pc = "done"
  /\ \E id \in Processed : PlanSize(id) = SizeEmpty /\ PrevVers(id) # <<>>
  /\ \E id \in Processed : PlanSize(id) = SizeEmpty /\ PrevVers(id) = <<>>
  /\ DOMAIN rn.tags # {}

\* C13: a project without previous version never has a mark rewrite staged,
\* and once processed with a non-Empty size its restrictions were verified
\* against curt_vers and its anchor tag is forwarded at curt_vers
C13_NewProjectForwarded ==
  plan # <<>> =>
    \A id \in DOMAIN plan[1].incrs :
      PrevVers(id) = <<>> =>
        /\ id \notin DOMAIN rn.marks
        /\ (id \in Processed /\ PlanSize(id) # SizeEmpty) =>
             /\ <<id, CurtVers(id)>> \in rn.verified
             /\ id \in DOMAIN rn.tags
             /\ rn.tags[id] = CurtVers(id)
             /\ Records("new", id) # {}

\* the new project 3 was processed with a size that would bump a version
C13_Witness ==
  /\ 3 \in Processed
  /\ PrevVers(3) = <<>>
  /\ PlanSize(3) >= SizePatch
  /\ 3 \in DOMAIN rn.tags

\* the version run verifies the restrictions of a project against
CheckedVers(id) ==
  IF PrevVers(id) # <<>> /\ LessThan(CurtVers(id), TargetOf(id)) THEN TargetOf(id) ELSE CurtVers(id)

\* C14: when a round of the loop fails, nothing is committed, no tag is moved,
\* nothing is pushed and no file is written, whatever was staged before; a
\* commit is made at most once, and only when every project of the plan was
\* processed and passed its restrictions
C14_NoPartialCommit ==
  /\ rn.pc = "failed" =>
       ~rn.committed /\ ~rn.tag_moved /\ ~rn.pushed /\ rn.written = {}
  /\ (rn.committed \/ rn.tag_moved \/ rn.pushed \/ rn.written # {}) =>
       /\ rn.pc = "done"
       /\ rn.todo = {}
       /\ \A id \in DOMAIN plan[1].incrs :
            PlanSize(id) # SizeEmpty => RestrictionOk(rn.locked, id, CheckedVers(id))
  /\ Cardinality({i \in DOMAIN rn.out : rn.out[i].kind = "commit"}) <= 1

\* a round failed on a restriction after a mark rewrite of another project had
\* been staged
C14_Witness ==
  /\ rn.pc = "failed"
  /\ plan # <<>>
  /\ DOMAIN rn.marks # {}
  /\ \E id \in DOMAIN plan[1].incrs \ DOMAIN rn.marks :
       PlanSize(id) # SizeEmpty /\ ~RestrictionOk(rn.locked, id, CheckedVers(id))

-----------------------------------------------------------------------------
(* The plan and the order of the walk *)

\* the sequences that hold the PR groups of h in another order, h included
Reorderings(h) ==
  {[i \in DOMAIN h |-> h[f[i]]] :
     f \in {g \in [DOMAIN h -> DOMAIN h] : \A i, j \in DOMAIN h : g[i] = g[j] => i = j}}

\* the plans build_plan returns for the PR groups of h walked in some order
PlansOf(h) == {BuildPlan(w, depends, ord) : w \in Reorderings(h), ord \in Perms}

\* C15 as claimed: the plan build_plan returned is the plan it returns for the
\* same PR groups walked in any other order, PRs of equal closed_at included
C15_WalkOrderIndependent ==
  pc = "built" => PlansOf(hist) = {plan}

\* the plan build_plan returned is the plan of a second run over the same PR
\* groups in the same order, whatever order the dependency sets are visited in
SameWalkSamePlan ==
  pc = "built" => {BuildPlan(hist, depends, ord) : ord \in Perms} = {plan}

\* the plan does not depend on the walk order when no two PRs were closed at
\* the same time and at most one PR is ineffective
DistinctTimesSamePlan ==
  (/\ pc = "built"
   /\ \A i, j \in DOMAIN hist : i # j => hist[i].closed_at # hist[j].closed_at
   /\ Len(plan[1].ineffective) <= 1) => PlansOf(hist) = {plan}

-----------------------------------------------------------------------------
(* Properties of pull_ff_only *)

\* the step in which do_merge runs on the fetched commit
DoMergeStep ==
  /\ git.pc = "fetched" /\ git'.pc # "fetched"
  /\ git.commit_oid # <<>> /\ ~git.repo.dirty

\* C16: do_merge moves the local branch ref to the fetched commit and checks
\* it out when merge analysis says fast-forward; when it says normal it
\* returns an error and leaves every ref and the working tree as they were;
\* it never creates a merge commit
C16_FastForwardOnly ==
  [][DoMergeStep =>
       LET c == git.commit_oid[1]
           analysis == MergeAnalysis(git.repo, c)
       IN  /\ analysis = "FastForward" =>
                /\ git'.res = "Ok"
                /\ git'.repo.refs[git.branch] = c
                /\ git'.repo.head = git.branch
                /\ git'.repo.tree = c
                /\ \A b \in Branches \ {git.branch} : git'.repo.refs[b] = git.repo.refs[b]
           /\ analysis = "Normal" =>
                /\ git'.res = "NotFastForward"
                /\ git'.repo = git.repo
           /\ git'.repo.merges = git.repo.merges]_vars

\* a pull moved main from commit 1 to the fetched commit 3, and checked it out
C16_Witness ==
  /\ git.pc = "done"
  /\ git.analysis = "FastForward"
  /\ git.commit_oid = <<3>>
  /\ git.repo.refs["main"] = 3 /\ git.repo.tree = 3
  /\ git.repo.refs["dev"] = 1

\* C17 as claimed: when pull_ff_only fails because the working tree has a
\* status that is not current, nothing has been fetched, merged or checked out
C17_NotCleanBeforeFetch ==
  git.res = "NotClean" =>
    /\ ~git.repo.fetched /\ ~git.repo.tags /\ git.repo.fetch_head = 0
    /\ git.repo.merges = 0

-----------------------------------------------------------------------------
(* Properties of the XML scanner *)

\* the number of elements open around item i of the document
Level(doc, i) ==
  Cardinality({j \in 1 .. i - 1 : doc[j].k = "open"}) -
  Cardinality({j \in 1 .. i - 1 : doc[j].k = "close"})

IsElement(doc, i) == doc[i].k \in {"open", "empty"}

\* the item that ends element e: itself, or its closing tag
EndOf(doc, e) ==
  IF doc[e].k = "empty" THEN e
  ELSE CHOOSE j \in e + 1 .. Len(doc) :
         /\ doc[j].k = "close" /\ Level(doc, j) = Level(doc, e) + 1
         /\ \A i \in e + 1 .. j - 1 : ~(doc[i].k = "close" /\ Level(doc, i) = Level(doc, e) + 1)

\* what stands between the tags of element e
Inside(doc, e) == e + 1 .. EndOf(doc, e) - 1

\* the elements directly inside element e, the texts directly inside it, and
\* the texts anywhere inside it
Children(doc, e) == {j \in Inside(doc, e) : IsElement(doc, j) /\ Level(doc, j) = Level(doc, e) + 1}
OwnTexts(doc, e) == {j \in Inside(doc, e) : doc[j].k = "text" /\ Level(doc, j) = Level(doc, e) + 1}
InnerTexts(doc, e) == {j \in Inside(doc, e) : doc[j].k = "text"}

\* the byte offset of item i
RECURSIVE Offset(_, _)
Offset(doc, i) == IF i = 1 THEN 0 ELSE Offset(doc, i - 1) + ItemBytes(doc[i - 1])

\* the element chains of the path: the root for the first part, then each an
\* element directly inside the one before, named as the parts
Chains(doc, loc) ==
  {c \in [DOMAIN loc -> DOMAIN doc] :
     /\ c[1] = 1
     /\ \A k \in DOMAIN loc : IsElement(doc, c[k]) /\ doc[c[k]].s = loc[k]
     /\ \A k \in 2 .. Len(loc) : c[k] \in Children(doc, c[k - 1])}

\* the chain along first matches: the element taken for part k, 0 when there
\* is none: the root, then the first child named as the part
RECURSIVE FirstMatch(_, _, _)
FirstMatch(doc, loc, k) ==
  IF k = 1 THEN (IF doc[1].s = loc[1] THEN 1 ELSE 0)
  ELSE LET up == FirstMatch(doc, loc, k - 1)
           named == IF up = 0 THEN {} ELSE {j \in Children(doc, up) : doc[j].s = loc[k]}
       IN  IF named = {} THEN 0 ELSE CHOOSE j \in named : \A i \in named : j <= i

\* the number of parts that have an element along first matches
Matching(doc, loc) == Cardinality({k \in DOMAIN loc : FirstMatch(doc, loc, k) # 0})

ScannedMark(j) == Marked(xml.data[j].s, Offset(xml.data, j))

-----------------------------------------------------------------------------
(* handle_deps and the change logs *)

\* C18: handle_deps changes sizes only: every project's change log holds the
\* same entries before and after it, a project without entry gets an empty
\* log, and a project that had no size of its own and depends on one project
\* only ends with that project's size and its change log still empty
C18_DepsKeepLogs ==
  [][(pc = "prs" /\ pc' = "deps") =>
       /\ \A p \in Projects : LogIn(pb'.incrs, p) = LogIn(pb.incrs, p)
       /\ \A a, l \in Projects :
            (/\ depends[a] = {l} /\ depends[l] = {}
             /\ SizeIn(pb.incrs, a) = SizeNone /\ LogIn(pb.incrs, a) = <<>>) =>
              /\ SizeIn(pb'.incrs, a) = SizeIn(pb.incrs, l)
              /\ LogIn(pb'.incrs, a) = <<>>]_vars

\* scenario S2: project 1 was touched by the feat commit c2, project 3 depends
\* on it alone and was not touched: 3 is Major like 1, with an empty change
\* log, and 1 kept its entry
C18_Witness ==
  /\ pc = "deps"
  /\ depends[3] = {1} /\ depends[1] = {}
  /\ Len(LogIn(pb.incrs, 1)) = 1
  /\ SizeIn(pb.incrs, 1) = SizeMajor
  /\ SizeIn(pb.incrs, 3) = SizeMajor
  /\ LogIn(pb.incrs, 3) = <<>>

-----------------------------------------------------------------------------
(* finish_pr *)

\* the largest element of a non-empty set of sizes
Largest(S) == CHOOSE m \in S : \A x \in S : m >= x

\* C21: finish_pr appends the PR to the change log of every current project
\* that has an applying commit in it, with the largest size among those
\* commits, and raises the project's running size to at least that size; a
\* project without applying commit in the PR keeps its change log and its size
C21_FinishPrRollup ==
  [][(pc = "commits" /\ pc' = "prs") =>
       \A p \in Projects :
         LET lp == pb.on_pr_sizes[p]
             A == {lp.commits[i].size : i \in {j \in DOMAIN lp.commits : lp.commits[j].applies}}
         IN  IF A # {}
             THEN /\ LogIn(pb'.incrs, p) =
                       Append(LogIn(pb.incrs, p), [pr |-> lp, size |-> Largest(A)])
                  /\ SizeIn(pb'.incrs, p) = Max(SizeIn(pb.incrs, p), Largest(A))
             ELSE /\ LogIn(pb'.incrs, p) = LogIn(pb.incrs, p)
                  /\ SizeIn(pb'.incrs, p) = SizeIn(pb.incrs, p)]_vars

\* two PRs were finished: project 1 logged both, the second with a smaller
\* size than its running size, and another project logged neither
C21_Witness ==
  /\ pc = "prs"
  /\ Len(hist) = 2
  /\ Len(LogIn(pb.incrs, 1)) = 2
  /\ pb.incrs[1].log[2].size < pb.incrs[1].log[1].size
  /\ SizeIn(pb.incrs, 1) = pb.incrs[1].log[1].size
  /\ \E p \in Projects : LogIn(pb.incrs, p) = <<>> /\ SizeIn(pb.incrs, p) = SizeNone

\* the projects for which a commit of the i-th PR fed applies
Appliers(i) == {p \in Projects : \E k \in DOMAIN Fed(i).commits : Attributed(Fed(i).commits[k], p)}

\* how often PR number n occurs in a sequence of PRs or of change-log entries
TimesIn(s, n) == Cardinality({k \in DOMAIN s : s[k].number = n})
TimesLogged(log, n) == Cardinality({k \in DOMAIN log : log[k].pr.number = n})

\* C22: between PRs and from then on, a finished PR in which no project saw
\* an applying commit is exactly once in ineffective and in no change log;
\* any other finished PR is exactly once in the change log of each project
\* that saw an applying commit, in no other change log and not in ineffective
C22_LoggedOrIneffective ==
  pc \in {"prs"} \cup AfterDeps =>
    \A i \in DOMAIN hist :
      /\ TimesIn(pb.ineffective, Fed(i).number) = IF Appliers(i) = {} THEN 1 ELSE 0
      /\ \A p \in Projects :
           TimesLogged(LogIn(pb.incrs, p), Fed(i).number) = IF p \in Appliers(i) THEN 1 ELSE 0

\* of two finished PRs the first is ineffective and the second is logged by
\* project 1 and not by project 3
C22_Witness ==
  /\ pc = "prs"
  /\ Len(hist) = 2
  /\ Appliers(1) = {} /\ 1 \in Appliers(2) /\ 3 \notin Appliers(2)
  /\ Len(pb.ineffective) = 1
  /\ Len(LogIn(pb.incrs, 1)) = 1

-----------------------------------------------------------------------------
(* sort_and_dedup: the sizes of the entries *)

\* C23: after sort_and_dedup every change-log entry carries the largest size
\* among its included commits, Size::None when it has none, and every PR that
\* was logged for a project is still in that project's change log
C23_EntrySizeOfIncluded ==
  pc \in AfterSort =>
    \A p \in Projects :
      /\ \A i \in DOMAIN LogIn(pb.incrs, p) :
           LET cs == pb.incrs[p].log[i].pr.commits
               I == {cs[k].size : k \in {j \in DOMAIN cs : cs[j].applies /\ ~cs[j].duplicate}}
           IN  pb.incrs[p].log[i].size = IF I = {} THEN SizeNone ELSE Largest(I)
      /\ \A i \in DOMAIN hist :
           p \in Appliers(i) => TimesLogged(LogIn(pb.incrs, p), Fed(i).number) = 1

\* a change log keeps, with Size::None, a PR whose only applying commit is a
\* duplicate of a commit of an earlier-closed PR
C23_Witness ==
  /\ pc = "sorted"
  /\ \E p \in Projects :
       /\ Len(LogIn(pb.incrs, p)) = 2
       /\ pb.incrs[p].log[1].size > SizeNone
       /\ pb.incrs[p].log[2].size = SizeNone
       /\ \E k \in DOMAIN pb.incrs[p].log[2].pr.commits :
            pb.incrs[p].log[2].pr.commits[k].applies

-----------------------------------------------------------------------------
(* handle_deps: the sizes *)

\* the projects p depends on, directly or over other projects
RECURSIVE DepsWithin(_, _)
DepsWithin(p, n) ==
  IF n = 0 THEN {}
  ELSE depends[p] \cup UNION {DepsWithin(d, n - 1) : d \in depends[p]}

TransitiveDeps(p) == DepsWithin(p, Cardinality(Projects))

\* C24: handle_deps leaves every project with the largest of its own size and
\* the sizes its transitive dependencies had before the call
C24_DepsExactMax ==
  [][(pc = "prs" /\ pc' = "deps") =>
       \A p \in Projects :
         SizeIn(pb'.incrs, p) =
           Largest({SizeIn(pb.incrs, q) : q \in {p} \cup TransitiveDeps(p)})]_vars

\* on the chain 3 -> 2 -> 1: project 1 was raised by direct commits and
\* reaches 3 over two edges, while 2 has a smaller size of its own
C24_Witness ==
  /\ pc = "deps"
  /\ depends[2] = {1} /\ depends[3] = {2}
  /\ \E p \in Projects : Len(LogIn(pb.incrs, p)) >= 1
  /\ SizeIn(pb.incrs, 1) > SizeNone
  /\ SizeIn(pb.incrs, 3) = SizeIn(pb.incrs, 1)
  /\ \E i \in DOMAIN LogIn(pb.incrs, 2) : pb.incrs[2].log[i].size < SizeIn(pb.incrs, 2)

-----------------------------------------------------------------------------
(* Properties of find_last_commits *)

\* the positions of the line, newest first, whose commit has a file that the
\* project with id p covers in the config sliced at that commit
CoveringAt(p) == {i \in DOMAIN lc.line : Attributed(lc.line[i], p)}

\* C25: when find_last_commits has walked the line from the newest commit to
\* the oldest, every current project with a covering commit is mapped to the
\* newest of its covering commits, and the others have no entry
C25_NewestCoveringWins ==
  pc = "lbuilt" =>
    \A p \in Projects :
      IF CoveringAt(p) = {} THEN p \notin DOMAIN lc.built[1]
      ELSE /\ p \in DOMAIN lc.built[1]
           /\ lc.built[1][p] = lc.line[CHOOSE i \in CoveringAt(p) : \A j \in CoveringAt(p) : i <= j]

\* what the walk does: the covering commit visited last, the oldest, is the
\* one that stays, and projects without covering commit have no entry
LastVisitedCoveringWins ==
  pc = "lbuilt" =>
    \A p \in Projects :
      IF CoveringAt(p) = {} THEN p \notin DOMAIN lc.built[1]
      ELSE /\ p \in DOMAIN lc.built[1]
           /\ lc.built[1][p] = lc.line[CHOOSE i \in CoveringAt(p) : \A j \in CoveringAt(p) : i >= j]

-----------------------------------------------------------------------------
(* Properties of DeltaIter *)

\* the paths of a diff: per delta the old path, then the new path when it is
\* another one; a side without path contributes nothing
RECURSIVE PathsOf(_)
PathsOf(diff) ==
  IF diff = <<>> THEN <<>>
  ELSE (IF Head(diff).old = Head(diff).new THEN Head(diff).old
        ELSE Head(diff).old \o Head(diff).new) \o PathsOf(Tail(diff))

\* C30: the k-th call of next() on the DeltaIter of a diff returns the k-th
\* of the paths of the diff, taken delta by delta (old path, then new path
\* when it differs, one path when both are equal or one side has none), and
\* None once these are used up, on every further call
C30_DeltaPathsInOrder ==
  (pc = "delta" /\ di.kind = "B") =>
    \A k \in DOMAIN di.out :
      di.out[k] = IF k <= Len(PathsOf(di.it.diff)) THEN <<PathsOf(di.it.diff)[k]>> ELSE <<>>

\* a rename followed by a delta with the same path on both sides: three paths
\* were yielded, then None twice
C30_Witness ==
  /\ pc = "delta" /\ di.kind = "B"
  /\ di.it.diff = <<[old |-> <<"a">>, new |-> <<"b">>], [old |-> <<"a">>, new |-> <<"a">>]>>
  /\ di.out = << <<"a">>, <<"b">>, <<"a">>, <<>>, <<>> >>

-----------------------------------------------------------------------------
(* The order of the events of build_plan *)

\* the builder calls that build_plan can make next after a call
FollowersOf(op) ==
  CASE op = "none" -> {"start_pr", "handle_deps"}
    [] op = "start_pr" -> {"start_commit", "finish_pr"}
    [] op = "start_commit" -> {"start_file", "finish_commit"}
    [] op = "start_file" -> {"finish_file"}
    [] op = "finish_file" -> {"start_file", "finish_commit"}
    [] op = "finish_commit" -> {"start_commit", "finish_pr"}
    [] op = "finish_pr" -> {"start_pr", "handle_deps"}
    [] op = "handle_deps" -> {"sort_and_dedup"}
    [] OTHER -> {}

\* C26: every step of build_plan follows a call that returned Ok; a builder
\* call is one that the event order allows after the call before it;
\* start_file is made with the slicer at the commit being visited and with a
\* file of that commit, finish_commit after all of its files; build follows
\* sort_and_dedup; a call that fails ends build_plan without a plan
C26_EventOrder ==
  [][/\ result = "Ok"
     /\ IF plan' # plan
        THEN last.op = "sort_and_dedup" /\ last' = last
        ELSE /\ last'.op \in FollowersOf(last.op)
             /\ last'.op = "start_file" =>
                  /\ pb.prev = <<OnOid>>
                  /\ SlicerFile(pb.prev) = ConfigAt(OnOid)
                  /\ fileIdx \in DOMAIN CommitFiles(OnOid)
             /\ last'.op = "finish_commit" => fileIdx = Len(CommitFiles(OnOid)) + 1
     /\ result' # "Ok" => (pc' = "failed" /\ plan' = <<>>)]_vars

\* a plan was built after two PRs of two commits each, the first commit of
\* the second PR under the old config and the second under the new one
C26_Witness ==
  /\ pc = "built"
  /\ plan # <<>>
  /\ Len(hist) = 2
  /\ Len(Fed(1).commits) = 2
  /\ Fed(2).commits = <<"c1", "c2">>

-----------------------------------------------------------------------------
(* start_commit *)

\* the commits visited in the PR that is open
Visited == hist[Len(hist)].commits

\* the oids of the commits a LoggedPr lists
OidsOf(lp) == [k \in DOMAIN lp.commits |-> lp.commits[k].oid]

\* C27: while a PR is open, the LoggedPr of every current project lists the
\* commits visited so far, once each and in visiting order, each with the
\* commit's summary, the size of its kind in that project's size table and
\* duplicate unset, and with applies unset when start_commit returns; the
\* LoggedPrs in the change logs list all the commits of their PR in that order
C27_OneTentativeCommitEach ==
  /\ pc \in {"commits", "files", "file"} =>
       \A p \in Projects :
         LET cs == pb.on_pr_sizes[p].commits
         IN  /\ DOMAIN pb.on_pr_sizes = Projects
             /\ Len(cs) = Len(Visited)
             /\ \A k \in DOMAIN cs :
                  /\ cs[k].oid = Visited[k]
                  /\ cs[k].message = CommitSummary(Visited[k])
                  /\ cs[k].size = ProjectSize(p, CommitKind(Visited[k]))
                  /\ ~cs[k].duplicate
                  /\ (pc = "files" /\ fileIdx = 1 /\ k = Len(cs)) => ~cs[k].applies
  /\ pc # "failed" =>
       \A p \in Projects : \A i \in DOMAIN LogIn(pb.incrs, p) : \A j \in DOMAIN hist :
         pb.incrs[p].log[i].pr.number = Fed(j).number =>
           OidsOf(pb.incrs[p].log[i].pr) = Fed(j).commits

\* start_commit has returned for the second commit of a PR, the feat commit,
\* which is Major for project 1 and Minor for project 2
C27_Witness ==
  /\ pc = "files" /\ fileIdx = 1
  /\ Visited = <<"c1", "c2">>
  /\ pb.on_pr_sizes[1].commits[2].size = SizeMajor
  /\ pb.on_pr_sizes[2].commits[2].size = SizeMinor
  /\ pb.on_pr_sizes[1].commits[1].applies
  /\ ~pb.on_pr_sizes[1].commits[2].applies

-----------------------------------------------------------------------------
(* The slicer *)

\* C28: the slicer of a new builder is not sliced; a start_commit whose
\* config parses leaves it sliced at that commit, file() returning that
\* commit's config; one whose config does not parse fails and leaves the
\* slicer as it was; no other call touches it; and start_file on a slicer
\* that is not sliced fails
C28_SlicerKeepsLastGood ==
  [][/\ calls = 0 => (pb.prev = <<>> /\ SlicerFile(pb.prev) = <<>>)
     /\ IF last'.op = "start_commit"
        THEN IF ConfigAt(pb'.on_commit[1]) # <<>>
             THEN /\ result' = "Ok"
                  /\ pb'.prev = pb'.on_commit
                  /\ SlicerFile(pb'.prev) = ConfigAt(pb'.on_commit[1])
             ELSE /\ result' = "Err"
                  /\ pb'.prev = pb.prev
        ELSE pb'.prev = pb.prev
     /\ (last'.op = "start_file" /\ pb.prev = <<>>) => result' = "Err"]_vars

\* the slicer is still at c1 after a start_commit on cx, whose config does
\* not parse, and a start_file was then answered from c1's config
C28_Witness ==
  /\ pc = "api"
  /\ last.op = "start_file" /\ result = "Ok"
  /\ pb.on_commit = <<"cx">>
  /\ pb.prev = <<"c1">>

\* C29 as claimed: finish_pr called with no PR open returns an error and
\* leaves incrs and ineffective as they were
C29_FinishPrNeedsOpenPr ==
  [][(last'.op = "finish_pr" /\ ~last'.in_pr) =>
       /\ result' = "Err"
       /\ pb'.incrs = pb.incrs
       /\ pb'.ineffective = pb.ineffective]_vars

\* what finish_pr does with no PR open: it panics on the empty Option, with
\* incrs and ineffective as they were
FinishPrWithoutPrPanics ==
  [][(last'.op = "finish_pr" /\ ~last'.in_pr) =>
       /\ result' = "Panic"
       /\ pb'.incrs = pb.incrs
       /\ pb'.ineffective = pb.ineffective]_vars

-----------------------------------------------------------------------------
(* The sizes of a project and of its change-log entries *)

\* the commits fed, in any PR, that apply to p
DirectCommits(p) ==
  {oid \in Oids : Attributed(oid, p) /\ \E j \in DOMAIN hist : oid \in Range(Fed(j).commits)}

\* the size p gets from the commits that apply to it, Size::None without any
DirectSize(p) ==
  IF DirectCommits(p) = {} THEN SizeNone
  ELSE Largest({ProjectSize(p, CommitKind(oid)) : oid \in DirectCommits(p)})

\* the largest size stored with an entry of a change log, Size::None without any
TopEntry(log) == IF log = <<>> THEN SizeNone ELSE Largest({log[i].size : i \in DOMAIN log})

\* C37: between PRs a project's size is the largest size among the commits
\* that apply to it; after sort_and_dedup the project's size is at least the
\* size stored with every entry of its change log, and the largest of these
\* entry sizes is still that size from direct commits
C37_DedupKeepsMaximum ==
  /\ pc = "prs" => \A p \in Projects : SizeIn(pb.incrs, p) = DirectSize(p)
  /\ pc \in AfterSort =>
       \A p \in Projects :
         /\ \A i \in DOMAIN LogIn(pb.incrs, p) : SizeIn(pb.incrs, p) >= pb.incrs[p].log[i].size
         /\ TopEntry(LogIn(pb.incrs, p)) = DirectSize(p)

\* a built plan in which a project's second entry was left with Size::None by
\* dedup, its only applying commit being included in the first entry
C37_Witness ==
  /\ pc = "built"
  /\ \E p \in Projects :
       /\ Len(plan[1].incrs[p].log) = 2
       /\ plan[1].incrs[p].log[2].size = SizeNone
       /\ plan[1].incrs[p].log[1].size = DirectSize(p)
       /\ DirectSize(p) > SizeNone

-----------------------------------------------------------------------------
(* handle_deps on cyclic and dangling dependencies *)

\* the current projects p reaches over at most n dependency edges
RECURSIVE ReachedWithin(_, _)
ReachedWithin(p, n) ==
  IF n = 0 THEN {}
  ELSE LET direct == depends[p] \cap Projects
       IN  direct \cup UNION {ReachedWithin(d, n - 1) : d \in direct}

OnCycle(p) == p \in ReachedWithin(p, Cardinality(Projects))

NoRepeat(s) == \A i, j \in DOMAIN s : s[i] = s[j] => i = j

\* C36: on every graph of dependencies, cyclic or with unknown ids, the queue
\* loop of handle_deps comes to its end; no project is queued twice or popped
\* twice, no edge is removed twice, and a project on a cycle or depending on
\* an unknown id is never queued
C36_HandleDepsTerminates ==
  /\ <>(hd.pc = "done")
  /\ [](/\ NoRepeat(hd.enq)
        /\ NoRepeat(hd.deq)
        /\ NoRepeat(hd.removed)
        /\ \A p \in Projects :
             (OnCycle(p) \/ UnknownId \in depends[p]) => p \notin Range(hd.enq))

\* handle_deps has returned on a graph where projects 1 and 2 depend on each
\* other and on project 3: only 3 was ever queued, and it raised both
C36_Witness ==
  /\ hd.pc = "done"
  /\ depends[1] = {2, 3} /\ depends[2] = {1, 3} /\ depends[3] = {}
  /\ hd.enq = <<3>> /\ hd.deq = <<3>>
  /\ Len(hd.removed) = 2

-----------------------------------------------------------------------------
(* The XML scanner and nested text *)

\* C34 as claimed: a text the scanner returns is a text directly inside the
\* terminal element of a chain of elements matching the path, never a text of
\* an element nested in it
C34_DirectChildText ==
  (xml.pc = "scanned" /\ xml.mark.ok) =>
    \E c \in Chains(xml.data, xml.loc) : \E j \in OwnTexts(xml.data, c[Len(xml.loc)]) :
      xml.mark = ScannedMark(j)

\* what the scanner keeps to: a text it returns lies somewhere inside the
\* terminal element, at any depth
ReturnedTextInsideTerminal ==
  (xml.pc = "scanned" /\ xml.mark.ok) =>
    \E j \in InnerTexts(xml.data, FirstMatch(xml.data, xml.loc, Len(xml.loc))) :
      xml.mark = ScannedMark(j)

-----------------------------------------------------------------------------
(* The report of a project that is already ahead *)

\* the forward records of the report, for all projects
Forwards == {i \in DOMAIN rn.out : rn.out[i].kind = "forward"}

\* the line written for a forward record
LineOf(rec) == rec.line

\* scenario S5: the version before is 1.2.0, the current one 2.0.0, the target 1.3.0
IsS5(rec) == rec.prev = <<1, 2, 0>> /\ rec.curt = <<2, 0, 0>> /\ rec.target = <<1, 3, 0>>

\* C35 as claimed: in scenario S5 the line is
\* "no change: 1.2.0 -> 1.3.0 exceeds 2.0.0", target before current version
C35_ExceedsLineAsClaimed ==
  \A i \in Forwards :
    (IsS5(rn.out[i]) /\ rn.out[i].all) =>
      LineOf(rn.out[i]) = <<"no change:", <<1, 2, 0>>, "->", <<1, 3, 0>>, "exceeds", <<2, 0, 0>>>>

\* C35 as amended: with all set, a project whose current version is above both
\* the previous version and the target is reported as
\* "no change: <prev_vers> -> <curt_vers> exceeds <target>", in scenario S5
\* "no change: 1.2.0 -> 2.0.0 exceeds 1.3.0"; without all no line is reported
C35_ExceedsLine ==
  \A i \in Forwards :
    LET rec == rn.out[i]
    IN  /\ (rec.all /\ rec.prev # rec.curt /\ rec.curt # rec.target) =>
             LineOf(rec) = <<"no change:", rec.prev, "->", rec.curt, "exceeds", rec.target>>
        /\ (rec.all /\ IsS5(rec)) =>
             LineOf(rec) = <<"no change:", <<1, 2, 0>>, "->", <<2, 0, 0>>, "exceeds", <<1, 3, 0>>>>
        /\ ~rec.all => LineOf(rec) = <<>>

\* run with all set has reported project 2 in scenario S5 and forwarded its tag
C35_Witness ==
  /\ \E i \in Forwards : rn.out[i].id = 2 /\ rn.out[i].all /\ IsS5(rn.out[i])
  /\ 2 \in DOMAIN rn.tags
  /\ 2 \notin DOMAIN rn.marks

-----------------------------------------------------------------------------
(* The kind of a commit *)

Separators == {":", "("}

Spaces(text) == \A i \in DOMAIN text : text[i] = " "

\* text is line up to its first separator
BeforeFirstSeparator(text, line) ==
  /\ Len(text) < Len(line)
  /\ line[Len(text) + 1] \in Separators
  /\ \A i \in DOMAIN text : text[i] = line[i] /\ text[i] \notin Separators

\* C32: the kind of a commit without summary, or whose summary has no ':' and
\* no '(', is "-"; otherwise it is the text before the first ':' or '(' with
\* the spaces at its two ends taken off, and nothing else
C32_KindBeforeSeparator ==
  ck.pc = "done" =>
    IF ck.summary = <<>> \/ \A i \in DOMAIN ck.summary[1] : ck.summary[1][i] \notin Separators
    THEN ck.kind = <<"-">>
    ELSE /\ ck.kind = <<>> \/ (ck.kind[1] # " " /\ ck.kind[Len(ck.kind)] # " ")
         /\ \E left, right \in UNION {[1..n -> {" "}] : n \in 0..MaxSummary} :
              BeforeFirstSeparator(left \o ck.kind \o right, ck.summary[1])

\* the summary " f(:" : the kind is "f", taken before the '(' and trimmed
C32_Witness ==
  /\ ck.pc = "done"
  /\ ck.summary = << <<" ", "f", "(", ":">> >>
  /\ ck.kind = <<"f">>

-----------------------------------------------------------------------------
(* Properties of find_old_tags *)

\* the tags of the prefix that sit on a commit, in the order they are listed
TagsOn(prefix, oid) ==
  SelectSeq(TagList, LAMBDA tag :
    FnMatch(prefix, tag) /\ \E i \in DOMAIN TagList : TagList[i] = tag /\ ot.at[i] = oid)

\* the walked commits at or before c that carry a tag of the prefix
TaggedNotAfter(prefix, c) == {t \in Range(Walk) : t <= c /\ TagsOn(prefix, t) # <<>>}

\* what OldTags holds for the prefix: nothing when no tag of it was listed
OldTagsOf(prefix) ==
  IF prefix \in DOMAIN ot.per THEN ot.per[prefix]
  ELSE [old_tags |-> <<>>, not_after |-> <<>>]

-----------------------------------------------------------------------------
(* Properties of keyed_files *)

\* the groups keyed_files reads: not a best guess, and with a head oid
EmittedGroups ==
  {g \in DOMAIN kf.groups : ~kf.groups[g].best_guess /\ kf.groups[g].head_oid # <<>>}

\* group, commit and file positions that owe a pair: the commit was read and
\* is not in the exclude set of its group
OwedPairs ==
  {t \in EmittedGroups \X (1..MaxBetween) \X (1..2) :
     /\ t[2] \in DOMAIN kf.groups[t[1]].between.cmts
     /\ kf.groups[t[1]].between.cmts[t[2]].ok
     /\ kf.groups[t[1]].between.cmts[t[2]].id \notin kf.groups[t[1]].excludes
     /\ t[3] \in DOMAIN kf.groups[t[1]].between.cmts[t[2]].files}

\* the read errors of the groups read: of a commit, or of the files of a
\* commit that is not excluded
OwedCommitErrors ==
  {t \in EmittedGroups \X (1..MaxBetween) :
     /\ t[2] \in DOMAIN kf.groups[t[1]].between.cmts
     /\ \/ ~kf.groups[t[1]].between.cmts[t[2]].ok
        \/ /\ kf.groups[t[1]].between.cmts[t[2]].id \notin kf.groups[t[1]].excludes
           /\ ~kf.groups[t[1]].between.cmts[t[2]].files_ok}

\* the groups read whose commits could not be listed
OwedWalkErrors == {g \in EmittedGroups : ~kf.groups[g].between.ok}

\* C33: every pair of the stream is a file of a readable commit, not
\* excluded, of a group that is neither a best guess nor without a head oid,
\* under the kind of that commit; the stream holds one pair per such file and
\* one error item per read error
C33_KeyedFilesPairs ==
  kf.pc = "done" =>
    /\ \A i \in DOMAIN kf.vec :
         kf.vec[i].ok =>
           \E t \in OwedPairs :
             /\ kf.vec[i].kind = kf.groups[t[1]].between.cmts[t[2]].kind
             /\ kf.vec[i].file = kf.groups[t[1]].between.cmts[t[2]].files[t[3]]
    /\ Cardinality({i \in DOMAIN kf.vec : kf.vec[i].ok}) = Cardinality(OwedPairs)
    /\ Cardinality({i \in DOMAIN kf.vec : ~kf.vec[i].ok}) =
         Cardinality(OwedCommitErrors) + Cardinality(OwedWalkErrors)

\* a best-guess group with a head and a readable commit gives nothing; the
\* next group excludes commit 1 and gives the one file of commit 2
C33_Witness ==
  /\ kf.pc = "done"
  /\ Len(kf.groups) = 2
  /\ kf.groups[1].best_guess /\ kf.groups[1].head_oid # <<>>
  /\ Len(kf.groups[1].between.cmts) = 1 /\ kf.groups[1].between.cmts[1].files_ok
  /\ ~kf.groups[2].best_guess /\ kf.groups[2].excludes = {1}
  /\ Len(kf.groups[2].between.cmts) = 2
  /\ kf.groups[2].between.cmts[1].id = 1 /\ kf.groups[2].between.cmts[1].files_ok
  /\ kf.groups[2].between.cmts[2].id = 2
  /\ kf.vec = <<[ok |-> TRUE, kind |-> "feat", file |-> "c"]>>

====
